---- MODULE Spec2Model ----
(***************************************************************************)
(* A model of the gomoku game-state engine (package game: rules.go,        *)
(* move.go), of the cached analysis (package analysis), of the snapshot    *)
(* file (package storage) and of the move and analyze commands (package    *)
(* cli).  Move texts are sequences of one-character strings, so that       *)
(* splitting, length checks and number scanning are computed as the code   *)
(* computes them.  A GameState is a record with the fields of the Go       *)
(* struct; the board is indexed Board[row][col] with 0-based indices.      *)
(***************************************************************************)
EXTENDS Integers, Sequences, FiniteSets, TLC

VARIABLES
    gs,     \* the GameState the calls act on (the one of the last call or
            \* command that had one)
    arg,    \* the moveStr of the last MakeMove call
    ret,    \* the error the last MakeMove call returned (NilErr for nil)
    probe,  \* inputs and result of the last call of a pure function
    out,    \* what the last analysis call or command returned
    bp,     \* the calls made to the analysis collaborator, oldest first
    disk,   \* the file gamestate.json: <<>> when missing, else <<contents>>
    png     \* the file gomoku.png: <<>> when missing, else <<what is drawn>>

vars == <<gs, arg, ret, probe, out, bp, disk, png>>

-----------------------------------------------------------------------------
(* Constants and types of package game                                     *)

BoardSize == 15

PlayerBlack == "BLACK"

PlayerWhite == "WHITE"

\* A nil *Player (GameState.Winner of a game in progress or drawn).
Nil == "nil"

Idx == 0 .. (BoardSize - 1)

\* The letters 'A'..'O' in byte order; column index = place in this list - 1.
ColumnLetters ==
    <<"A", "B", "C", "D", "E", "F", "G", "H", "I", "J", "K", "L", "M", "N", "O">>

Digits == <<"0", "1", "2", "3", "4", "5", "6", "7", "8", "9">>

DigitSet == {Digits[i] : i \in 1 .. 10}

DigitVal(ch) == (CHOOSE i \in 1 .. 10 : Digits[i] = ch) - 1

Min(a, b) == IF a < b THEN a ELSE b

-----------------------------------------------------------------------------
(* Errors: the format string of the fmt.Errorf call and its arguments.     *)

Err(f, ps, t, n) == [fmt |-> f, players |-> ps, text |-> t, num |-> n]

NilErr == Err("", <<>>, <<>>, 0)

IsNil(e) == e.fmt = ""

-----------------------------------------------------------------------------
(* Text helpers                                                            *)

\* A text is the sequence of the characters of a Go string, each written as
\* a one-character string when it is an ASCII character.  The vertical tab
\* and a byte that is not valid UTF-8 (0xFF) have a name instead, and a
\* character outside ASCII is written by its code point: "U+00E9" for the
\* letter e with acute accent, "U+FFFD" for the replacement rune.
VerticalTab == "0x0B"

BadByte == "0xFF"

ReplacementRune == "U+FFFD"

\* The characters fmt's SkipSpace passes over before a number (the table
\* `space` of package fmt); a newline is not one of them (it ends the scan
\* with an error).
WhiteSpace ==
    {" ", "\t", VerticalTab, "\f", "\r", "U+0085", "U+00A0",
     "U+1680", "U+2000", "U+2001", "U+2002", "U+2003", "U+2004", "U+2005",
     "U+2006", "U+2007", "U+2008", "U+2009", "U+200A", "U+2028", "U+2029",
     "U+202F", "U+205F", "U+3000"}

\* The characters outside ASCII that the texts of this model are made of, by
\* the number of bytes of their UTF-8 encoding.
TwoByteRunes == {"U+0085", "U+00A0", "U+00E9"}

ThreeByteRunes ==
    {"U+1680", "U+2000", "U+2001", "U+2002", "U+2003", "U+2004", "U+2005",
     "U+2006", "U+2007", "U+2008", "U+2009", "U+200A", "U+2028", "U+2029",
     "U+202F", "U+205F", "U+3000", "U+20AC", "U+FFFD"}

\* The number of bytes of one character.
RuneLen(ch) ==
    IF ch \in TwoByteRunes THEN 2 ELSE IF ch \in ThreeByteRunes THEN 3 ELSE 1

\* len(s): the number of bytes of the string, one for each character and
\* the further bytes of those that take two or three.
ByteLen(s) ==
    Len(s) + Cardinality({i \in 1 .. Len(s) : RuneLen(s[i]) >= 2})
           + Cardinality({i \in 1 .. Len(s) : RuneLen(s[i]) >= 3})

\* strings.Split(s, "-")
Split(s) ==
    LET H == {i \in 1 .. Len(s) : s[i] = "-"}
        n == Cardinality(H)
        cut(k) == IF k = 0 THEN 0
                  ELSE IF k = n + 1 THEN Len(s) + 1
                  ELSE CHOOSE i \in H : Cardinality({j \in H : j < i}) = k - 1
    IN  [k \in 1 .. (n + 1) |-> SubSeq(s, cut(k - 1) + 1, cut(k) - 1)]

\* strconv.ParseInt(tok, 10, 64) for the tokens Sscanf hands it: an optional
\* sign followed by decimal digits.
RECURSIVE DecimalValue(_)
DecimalValue(ds) ==
    IF Len(ds) = 0 THEN 0
    ELSE 10 * DecimalValue(SubSeq(ds, 1, Len(ds) - 1)) + DigitVal(ds[Len(ds)])

ParseInt(tok) ==
    LET signed == Len(tok) > 0 /\ tok[1] \in {"+", "-"}
        ds     == IF signed THEN SubSeq(tok, 2, Len(tok)) ELSE tok
    IN  IF Len(ds) = 0 \/ \E i \in 1 .. Len(ds) : ds[i] \notin DigitSet
        THEN [ok |-> FALSE, val |-> 0]
        ELSE [ok |-> TRUE,
              val |-> IF signed /\ tok[1] = "-" THEN 0 - DecimalValue(ds)
                      ELSE DecimalValue(ds)]

\* fmt.Sscanf(s, "%02d", &row): leading white space is skipped, then at most two
\* characters (the width) are read: an optional sign and a non-empty run of
\* the digits "0123456789" (the verb %d takes no underscore).  Input left
\* over after the number is not an error.
Sscanf02d(s) ==
    LET n      == Len(s)
        start  == CHOOSE i \in 1 .. (n + 1) :
                      /\ \A j \in 1 .. (i - 1) : s[j] \in WhiteSpace
                      /\ (i <= n => s[i] \notin WhiteSpace)
        limit  == Min(n, start + 1)
        numAt  == IF start <= limit /\ s[start] \in {"+", "-"}
                  THEN start + 1 ELSE start
        stop   == CHOOSE i \in numAt .. (limit + 1) :
                      /\ \A j \in numAt .. (i - 1) : s[j] \in DigitSet
                      /\ (i <= limit => s[i] \notin DigitSet)
    IN  IF start > n \/ stop = numAt
        THEN [ok |-> FALSE, val |-> 0]
        ELSE ParseInt(SubSeq(s, start, stop - 1))

-----------------------------------------------------------------------------
(* rules.go: positions                                                     *)

\* ParsePosition without the range check on the row number.
ParsePositionUnchecked(pos) ==
    LET parts == Split(pos)
        bad(e) == [Row |-> 0, Col |-> 0, err |-> e]
    IN  IF Len(parts) # 2
        THEN bad(Err("invalid position format: %s", <<>>, pos, 0))
        ELSE
        LET colStr == parts[1]
            rowStr == parts[2]
        IN  IF ByteLen(colStr) # 1
                  \/ ~ \E i \in 1 .. BoardSize : ColumnLetters[i] = colStr[1]
            THEN bad(Err("invalid column: %s", <<>>, colStr, 0))
            ELSE IF ByteLen(rowStr) # 2
            THEN bad(Err("invalid row format: %s", <<>>, rowStr, 0))
            ELSE
            LET sc == Sscanf02d(rowStr)
            IN  IF ~ sc.ok
                THEN bad(Err("invalid row: %s", <<>>, rowStr, 0))
                ELSE [Row |-> sc.val - 1,
                      Col |-> (CHOOSE i \in 1 .. BoardSize :
                                   ColumnLetters[i] = colStr[1]) - 1,
                      err |-> NilErr]

\* ParsePosition converts "H-08" to Position{Row: 7, Col: 7}
ParsePosition(pos) ==
    LET parts == Split(pos)
        bad(e) == [Row |-> 0, Col |-> 0, err |-> e]
    IN  IF Len(parts) # 2
        THEN bad(Err("invalid position format: %s", <<>>, pos, 0))
        ELSE
        LET colStr == parts[1]
            rowStr == parts[2]
        IN  IF ByteLen(colStr) # 1
                  \/ ~ \E i \in 1 .. BoardSize : ColumnLetters[i] = colStr[1]
            THEN bad(Err("invalid column: %s", <<>>, colStr, 0))
            ELSE IF ByteLen(rowStr) # 2
            THEN bad(Err("invalid row format: %s", <<>>, rowStr, 0))
            ELSE
            LET sc == Sscanf02d(rowStr)
            IN  IF ~ sc.ok
                THEN bad(Err("invalid row: %s", <<>>, rowStr, 0))
                ELSE IF sc.val < 1 \/ sc.val > 15
                THEN bad(Err("row out of range: %d", <<>>, <<>>, sc.val))
                ELSE [Row |-> sc.val - 1,
                      Col |-> (CHOOSE i \in 1 .. BoardSize :
                                   ColumnLetters[i] = colStr[1]) - 1,
                      err |-> NilErr]

\* The decimal digits of a number below 100, without padding ("%d").
Decimal(n) ==
    IF n < 10 THEN <<Digits[n + 1]>>
    ELSE <<Digits[(n \div 10) + 1], Digits[(n % 10) + 1]>>

\* Mutant: the row written without zero padding ("%c-%d").
FormatPositionNoPad(pos) ==
    <<ColumnLetters[pos.Col + 1], "-">> \o Decimal(pos.Row + 1)

\* FormatPosition converts Position{Row: 7, Col: 7} to "H-08" ("%c-%02d")
FormatPosition(pos) ==
    <<ColumnLetters[pos.Col + 1], "-",
      Digits[((pos.Row + 1) \div 10) + 1], Digits[((pos.Row + 1) % 10) + 1]>>

IsValidPosition(g, pos) ==
    pos.Row >= 0 /\ pos.Row < BoardSize /\ pos.Col >= 0 /\ pos.Col < BoardSize

\* Mutant: the occupancy test forgotten, only the bounds are checked.
IsEmptyPositionBoundsOnly(g, pos) == IsValidPosition(g, pos)

IsEmptyPosition(g, pos) ==
    IF ~ IsValidPosition(g, pos) THEN FALSE
    ELSE g.Board[pos.Row][pos.Col] = "+"

\* The pieces of the two players exchanged.
GetPieceForPlayerSwapped(player) ==
    IF player = PlayerBlack THEN "O"
    ELSE IF player = PlayerWhite THEN "X"
    ELSE "+"

GetPieceForPlayer(player) ==
    IF player = PlayerBlack THEN "X"
    ELSE IF player = PlayerWhite THEN "O"
    ELSE "+"

\* Mutant: both branches return Black.
NextPlayerAlwaysBlack(current) == PlayerBlack

\* The turn never passes.
NextPlayerSame(current) == current

NextPlayer(current) ==
    IF current = PlayerBlack THEN PlayerWhite ELSE PlayerBlack

\* The board written row by row, as GenerateBoardHash concatenates it.
BoardData(g) ==
    [k \in 1 .. (BoardSize * BoardSize) |->
        g.Board[(k - 1) \div BoardSize][(k - 1) % BoardSize]]

\* Mutant: the turn is digested with the board.
GenerateBoardHashWithTurn(g) == <<"md5">> \o BoardData(g) \o <<g.CurrentTurn>>

\* md5 is taken to be collision-free: a digest is represented by the data it
\* was computed from, tagged so that it is never the empty string.
GenerateBoardHash(g) == <<"md5">> \o BoardData(g)

\* A new game in which Black moves first.
NewGameStateBlackFirst ==
    [Board            |-> [r \in Idx |-> [c \in Idx |-> "+"]],
     Moves            |-> <<>>,
     CurrentTurn      |-> PlayerBlack,
     Winner           |-> Nil,
     GameOver         |-> FALSE,
     Analysis         |-> "",
     AnalysisHash     |-> <<>>,
     CurrentBoardHash |-> <<>>]

NewGameState ==
    [Board            |-> [r \in Idx |-> [c \in Idx |-> "+"]],
     Moves            |-> <<>>,
     CurrentTurn      |-> PlayerWhite,
     Winner           |-> Nil,
     GameOver         |-> FALSE,
     Analysis         |-> "",
     AnalysisHash     |-> <<>>,
     CurrentBoardHash |-> <<>>]

-----------------------------------------------------------------------------
(* rules.go: win and draw detection                                        *)

\* Mutant: the vertical axis left out.
DirectionsNoVertical == <<<<0, 1>>, <<1, 1>>, <<1, -1>>>>

\* Mutant: the diagonal / left out.
DirectionsNoAntiDiagonal == <<<<0, 1>>, <<1, 0>>, <<1, 1>>>>

\* The four axes CheckWin scans: horizontal, vertical, diagonal \, diagonal /
Directions == <<<<0, 1>>, <<1, 0>>, <<1, 1>>, <<1, -1>>>>

\* countInOneDirection counts consecutive pieces in one direction
RECURSIVE countFrom(_, _, _, _, _, _)
countFrom(g, row, col, piece, deltaRow, deltaCol) ==
    IF row >= 0 /\ row < BoardSize /\ col >= 0 /\ col < BoardSize
       /\ g.Board[row][col] = piece
    THEN 1 + countFrom(g, row + deltaRow, col + deltaCol, piece, deltaRow, deltaCol)
    ELSE 0

countInOneDirection(g, pos, piece, deltaRow, deltaCol) ==
    countFrom(g, pos.Row + deltaRow, pos.Col + deltaCol, piece, deltaRow, deltaCol)

\* Mutant: the placed stone counted in both scans.
countInDirectionTwice(g, pos, piece, deltaRow, deltaCol) ==
    2 + countInOneDirection(g, pos, piece, deltaRow, deltaCol)
      + countInOneDirection(g, pos, piece, 0 - deltaRow, 0 - deltaCol)

\* The run counted on one side of the placed stone only.
countInDirectionForwardOnly(g, pos, piece, deltaRow, deltaCol) ==
    1 + countInOneDirection(g, pos, piece, deltaRow, deltaCol)

\* countInDirection counts consecutive pieces in a direction (both ways)
countInDirection(g, pos, piece, deltaRow, deltaCol) ==
    1 + countInOneDirection(g, pos, piece, deltaRow, deltaCol)
      + countInOneDirection(g, pos, piece, 0 - deltaRow, 0 - deltaCol)

\* Mutant: four in a row already wins.
CheckWinFour(g, pos, player) ==
    \E i \in 1 .. Len(Directions) :
        countInDirection(g, pos, GetPieceForPlayer(player),
                         Directions[i][1], Directions[i][2]) >= 4

CheckWin(g, pos, player) ==
    LET piece == GetPieceForPlayer(player)
    IN  \E i \in 1 .. Len(Directions) :
            countInDirection(g, pos, piece, Directions[i][1], Directions[i][2]) >= 5

\* Mutant: the comparison inverted, a stone instead of an empty cell makes
\* the board count as not full.
IsBoardFullInverted(g) ==
    ~ \E i \in Idx : \E j \in Idx : g.Board[i][j] # "+"

IsBoardFull(g) ==
    ~ \E i \in Idx : \E j \in Idx : g.Board[i][j] = "+"

-----------------------------------------------------------------------------
(* move.go                                                                 *)

\* ValidateAndParseMove taking the piece character in either case.
ValidateAndParseMoveAnyCase(moveStr) ==
    LET parts == Split(moveStr)
        bad(e) == [position |-> <<>>, player |-> "", err |-> e]
    IN  IF Len(parts) # 3
        THEN bad(Err("invalid move format: expected COL-ROW-PIECE, got %s",
                     <<>>, moveStr, 0))
        ELSE
        LET position == parts[1] \o <<"-">> \o parts[2]
            pieceStr == parts[3]
        IN  IF ByteLen(pieceStr) # 1
            THEN bad(Err("invalid piece: %s", <<>>, pieceStr, 0))
            ELSE IF pieceStr[1] \notin {"X", "O", "x", "o"}
            THEN bad(Err("invalid piece: %c (must be X or O)", <<>>, pieceStr, 0))
            ELSE
            LET p == ParsePosition(position)
            IN  IF ~ IsNil(p.err)
                THEN bad([p.err EXCEPT !.fmt = "invalid position: " \o @])
                ELSE [position |-> position,
                      player   |-> IF pieceStr[1] \in {"X", "x"} THEN PlayerBlack
                                   ELSE PlayerWhite,
                      err      |-> NilErr]

ValidateAndParseMove(moveStr) ==
    LET parts == Split(moveStr)
        bad(e) == [position |-> <<>>, player |-> "", err |-> e]
    IN  IF Len(parts) # 3
        THEN bad(Err("invalid move format: expected COL-ROW-PIECE, got %s",
                     <<>>, moveStr, 0))
        ELSE
        LET position == parts[1] \o <<"-">> \o parts[2]
            pieceStr == parts[3]
        IN  IF ByteLen(pieceStr) # 1
            THEN bad(Err("invalid piece: %s", <<>>, pieceStr, 0))
            ELSE IF pieceStr[1] \notin {"X", "O"}
            THEN bad(Err("invalid piece: %c (must be X or O)", <<>>, pieceStr, 0))
            ELSE
            LET p == ParsePosition(position)
            IN  IF ~ IsNil(p.err)
                THEN bad([p.err EXCEPT !.fmt = "invalid position: " \o @])
                ELSE [position |-> position,
                      player   |-> IF pieceStr[1] = "X" THEN PlayerBlack
                                   ELSE PlayerWhite,
                      err      |-> NilErr]

\* Mutant: the turn is passed before the error is returned.
RejectTurnPassed(g, e) ==
    [gs |-> [g EXCEPT !.CurrentTurn = NextPlayer(g.CurrentTurn)], err |-> e]

\* A return with an error: nothing was assigned before it, so the state is
\* what it was at the call.
Reject(g, e) == [gs |-> g, err |-> e]

\* Mutant: the winner is not looked at.
GameOverErrorDraw(g) == Err("game is over (draw)", <<>>, <<>>, 0)

\* Lines 46-51: the error of a call on a finished game.
GameOverError(g) ==
    IF g.Winner # Nil
    THEN Err("game is over, %s has won", <<g.Winner>>, <<>>, 0)
    ELSE Err("game is over (draw)", <<>>, <<>>, 0)

\* Mutant: the occupancy of the cell is checked before the turn.
LegalityOccupiedFirst(g, position, player) ==
    LET p == ParsePosition(position)
    IN  IF ~ IsNil(p.err) THEN p.err
        ELSE IF ~ IsValidPosition(g, [Row |-> p.Row, Col |-> p.Col])
        THEN Err("position %s is out of bounds", <<>>, position, 0)
        ELSE IF ~ IsEmptyPosition(g, [Row |-> p.Row, Col |-> p.Col])
        THEN Err("position %s is already occupied", <<>>, position, 0)
        ELSE IF player # g.CurrentTurn
        THEN Err("it's %s's turn, not %s's turn", <<g.CurrentTurn, player>>, <<>>, 0)
        ELSE NilErr

\* Lines 59-77: the checks made on a parsed move, in the order of the code;
\* NilErr when the move is legal.
Legality(g, position, player) ==
    IF player # g.CurrentTurn
    THEN Err("it's %s's turn, not %s's turn", <<g.CurrentTurn, player>>, <<>>, 0)
    ELSE
    LET p == ParsePosition(position)
    IN  IF ~ IsNil(p.err) THEN p.err
        ELSE IF ~ IsValidPosition(g, [Row |-> p.Row, Col |-> p.Col])
        THEN Err("position %s is out of bounds", <<>>, position, 0)
        ELSE IF ~ IsEmptyPosition(g, [Row |-> p.Row, Col |-> p.Col])
        THEN Err("position %s is already occupied", <<>>, position, 0)
        ELSE NilErr

\* Mutant: the stone is placed but the move is not appended.
PlaceWithoutRecord(g, position, pos, player) ==
    [g EXCEPT !.Board[pos.Row][pos.Col] = GetPieceForPlayer(player)]

\* The records numbered from 0.
PlaceAndRecordNumberedFromZero(g, position, pos, player) ==
    [g EXCEPT !.Board[pos.Row][pos.Col] = GetPieceForPlayer(player),
              !.Moves = Append(@, [Player   |-> player,
                                   Position |-> position,
                                   MoveNum  |-> Len(g.Moves),
                                   Piece    |-> GetPieceForPlayer(player)])]

\* Lines 79-90: the stone is placed and the move appended to the history.
PlaceAndRecord(g, position, pos, player) ==
    [g EXCEPT !.Board[pos.Row][pos.Col] = GetPieceForPlayer(player),
              !.Moves = Append(@, [Player   |-> player,
                                   Position |-> position,
                                   MoveNum  |-> Len(g.Moves) + 1,
                                   Piece    |-> GetPieceForPlayer(player)])]

\* Mutant: the draw check made before the win check.
ScoreDrawFirst(g, pos, player) ==
    IF IsBoardFull(g)
    THEN [g EXCEPT !.GameOver = TRUE, !.Winner = Nil]
    ELSE IF CheckWin(g, pos, player)
    THEN [g EXCEPT !.GameOver = TRUE, !.Winner = player]
    ELSE [g EXCEPT !.CurrentTurn = NextPlayer(g.CurrentTurn),
                   !.CurrentBoardHash = GenerateBoardHash(g),
                   !.Analysis = "",
                   !.AnalysisHash = <<>>]

\* A win names the winner without ending the game.
ScoreWinnerOnly(g, pos, player) ==
    IF CheckWin(g, pos, player)
    THEN [g EXCEPT !.Winner = player]
    ELSE IF IsBoardFull(g)
    THEN [g EXCEPT !.GameOver = TRUE, !.Winner = Nil]
    ELSE [g EXCEPT !.CurrentTurn = NextPlayer(g.CurrentTurn),
                   !.CurrentBoardHash = GenerateBoardHash(g),
                   !.Analysis = "",
                   !.AnalysisHash = <<>>]

\* The turn passes with every accepted move, the last one included.
ScorePassingTurn(g, pos, player) ==
    IF CheckWin(g, pos, player)
    THEN [g EXCEPT !.GameOver = TRUE, !.Winner = player,
                   !.CurrentTurn = NextPlayer(g.CurrentTurn)]
    ELSE IF IsBoardFull(g)
    THEN [g EXCEPT !.GameOver = TRUE, !.Winner = Nil,
                   !.CurrentTurn = NextPlayer(g.CurrentTurn)]
    ELSE [g EXCEPT !.CurrentTurn = NextPlayer(g.CurrentTurn),
                   !.CurrentBoardHash = GenerateBoardHash(g),
                   !.Analysis = "",
                   !.AnalysisHash = <<>>]

\* Lines 92-114: win, draw, or the turn passes.  The two returns of a
\* finished game come before the hash update and the clearing of the
\* cached analysis.
Score(g, pos, player) ==
    IF CheckWin(g, pos, player)
    THEN [g EXCEPT !.GameOver = TRUE, !.Winner = player]
    ELSE IF IsBoardFull(g)
    THEN [g EXCEPT !.GameOver = TRUE, !.Winner = Nil]
    ELSE [g EXCEPT !.CurrentTurn = NextPlayer(g.CurrentTurn),
                   !.CurrentBoardHash = GenerateBoardHash(g),
                   !.Analysis = "",
                   !.AnalysisHash = <<>>]

\* MakeMove attempts to make a move on the board; the result is the state
\* after the call and the error returned.
MakeMove(g, moveStr) ==
    IF g.GameOver THEN Reject(g, GameOverError(g))
    ELSE
    LET v == ValidateAndParseMove(moveStr)
    IN  IF ~ IsNil(v.err) THEN Reject(g, v.err)
        ELSE
        LET e == Legality(g, v.position, v.player)
        IN  IF ~ IsNil(e) THEN Reject(g, e)
            ELSE
            LET p   == ParsePosition(v.position)
                pos == [Row |-> p.Row, Col |-> p.Col]
            IN  [gs  |-> Score(PlaceAndRecord(g, v.position, pos, v.player),
                               pos, v.player),
                 err |-> NilErr]

\* A draw reported like a game still going on.
GetGameStatusNoDraw(g) ==
    IF g.GameOver /\ g.Winner # Nil
    THEN <<"Game Over - %s wins!", g.Winner>>
    ELSE <<"%s to move", g.CurrentTurn>>

\* GetGameStatus returns current game status: the format and its argument.
GetGameStatus(g) ==
    IF g.GameOver
    THEN IF g.Winner # Nil THEN <<"Game Over - %s wins!", g.Winner>>
         ELSE <<"Game Over - Draw!">>
    ELSE <<"%s to move", g.CurrentTurn>>

-----------------------------------------------------------------------------
(* Package analysis (move.go, lines 136-357)                               *)

\* formatBoardForAnalysis: one line per row, the cells of the row in column
\* order.
formatBoardForAnalysis(g) ==
    [r \in 1 .. BoardSize |-> [c \in 1 .. BoardSize |-> g.Board[r - 1][c - 1]]]

\* createAnalysisPrompt: the parts of the state the prompt is written from.
createAnalysisPrompt(g, boardStr) ==
    [board     |-> boardStr,
     moves     |-> g.Moves,
     status    |-> GetGameStatus(g),
     total     |-> Len(g.Moves),
     recommend |-> IF ~ g.GameOver THEN <<g.CurrentTurn>> ELSE <<>>]

\* What client.Converse can answer: a failure, a message without content,
\* or a message whose first content block is a text.
Failure == [ok |-> FALSE, content |-> <<>>]

NoContent == [ok |-> TRUE, content |-> <<>>]

TextResponse(t) == [ok |-> TRUE, content |-> <<t>>]

\* Generate: the text of the response, or an error.
Generate(response) ==
    IF ~ response.ok
    THEN [text |-> "", err |-> Err("bedrock converse failed: %w", <<>>, <<>>, 0)]
    ELSE IF Len(response.content) > 0
    THEN [text |-> response.content[1], err |-> NilErr]
    ELSE [text |-> "", err |-> Err("no text content in response", <<>>, <<>>, 0)]

\* Mutant: the text is stored without its hash tag.
AnalyzeGamePositionUntagged(g, response) ==
    IF g.Analysis # "" /\ g.AnalysisHash = g.CurrentBoardHash
    THEN [gs |-> g, text |-> "[CACHED ANALYSIS]\n" \o g.Analysis, err |-> NilErr,
          generated |-> FALSE]
    ELSE
    LET r == Generate(response)
    IN  IF ~ IsNil(r.err)
        THEN [gs |-> g, text |-> "", err |-> r.err, generated |-> TRUE]
        ELSE [gs |-> [g EXCEPT !.Analysis = r.text],
              text |-> r.text, err |-> NilErr, generated |-> TRUE]

\* AnalyzeGamePosition tagging the state before the collaborator answers.
AnalyzeGamePositionTagFirst(g, response) ==
    IF g.Analysis # "" /\ g.AnalysisHash = g.CurrentBoardHash
    THEN [gs |-> g, text |-> "[CACHED ANALYSIS]\n" \o g.Analysis, err |-> NilErr,
          generated |-> FALSE]
    ELSE
    LET r == Generate(response)
        t == [g EXCEPT !.AnalysisHash = g.CurrentBoardHash]
    IN  IF ~ IsNil(r.err)
        THEN [gs |-> t, text |-> "", err |-> r.err, generated |-> TRUE]
        ELSE [gs |-> [t EXCEPT !.Analysis = r.text],
              text |-> r.text, err |-> NilErr, generated |-> TRUE]

\* AnalyzeGamePosition performs strategic analysis of the current game
\* position with caching.  `response` is what the collaborator answers if it
\* is called; `generated` tells whether Generate was called.
AnalyzeGamePosition(g, response) ==
    IF g.Analysis # "" /\ g.AnalysisHash = g.CurrentBoardHash
    THEN [gs |-> g, text |-> "[CACHED ANALYSIS]\n" \o g.Analysis, err |-> NilErr,
          generated |-> FALSE]
    ELSE
    LET r == Generate(response)
    IN  IF ~ IsNil(r.err)
        THEN [gs |-> g, text |-> "", err |-> r.err, generated |-> TRUE]
        ELSE [gs |-> [g EXCEPT !.Analysis = r.text,
                               !.AnalysisHash = g.CurrentBoardHash],
              text |-> r.text, err |-> NilErr, generated |-> TRUE]

-----------------------------------------------------------------------------
(* The game played from a fresh state                                      *)

\* The move text "<Column>-<Row>-<Piece>" of a cell and a piece.
MoveText(row, col, piece) ==
    FormatPosition([Row |-> row, Col |-> col]) \o <<"-", piece>>

\* Cells of row 01 (White's line) and of the main diagonal from H-08
\* (Black's cells) that the players of this specification choose from.
WhiteCells == {<<0, c>> : c \in 0 .. 4}

BlackCells == {<<7 + k, 7 + k>> : k \in 0 .. 3}

MalformedTexts ==
    { <<"H", "-", "0", "8">>,
      <<"H", "-", "0", "8", "-", "x">>,
      <<"P", "-", "0", "1", "-", "O">> }

MoveTexts ==
    {MoveText(c[1], c[2], "O") : c \in WhiteCells}
        \cup {MoveText(c[1], c[2], "X") : c \in BlackCells}
        \cup MalformedTexts

NoProbe ==
    [op |-> "none", pos |-> [Row |-> 0, Col |-> 0], player |-> "",
     done |-> FALSE, result |-> FALSE]

\* No analysis call or command has returned yet.
NoOut == [op |-> "none", n |-> 0, text |-> "", err |-> NilErr, moves |-> 0]

\* No collaborator call made, no file written.
Untouched ==
    /\ out = NoOut
    /\ bp = <<>>
    /\ disk = <<>>
    /\ png = <<>>

Init ==
    /\ gs = NewGameState
    /\ arg = <<>>
    /\ ret = NilErr
    /\ probe = NoProbe
    /\ Untouched

\* One call gs.MakeMove(moveStr).
Move(moveStr) ==
    LET r == MakeMove(gs, moveStr)
    IN  /\ gs' = r.gs
        /\ arg' = moveStr
        /\ ret' = r.err
        /\ UNCHANGED <<probe, out, bp, disk, png>>

Next == \E moveStr \in MoveTexts : Move(moveStr)

Spec == Init /\ [][Next]_vars

-----------------------------------------------------------------------------
(* Games continued from positions reached by play                          *)

\* The state after the calls MakeMove(texts[lo]), ..., MakeMove(texts[hi]) on
\* g, one after the other (the list is halved to keep the evaluation shallow).
RECURSIVE ReplayRange(_, _, _, _)
ReplayRange(g, texts, lo, hi) ==
    IF lo > hi THEN g
    ELSE IF lo = hi THEN MakeMove(g, texts[lo]).gs
    ELSE CHOOSE h \in {ReplayRange(n, texts, ((lo + hi) \div 2) + 1, hi) :
                          n \in {ReplayRange(g, texts, lo, (lo + hi) \div 2)}} : TRUE

Replay(texts) == ReplayRange(NewGameState, texts, 1, Len(texts))

\* The cells left empty by the positions below; the players of SpecPlay
\* choose among them, in any order, with either piece.
Arena == {<<6, 6>>, <<8, 6>>, <<8, 8>>, <<8, 9>>, <<9, 7>>}

\* A colouring of the whole board without five in a row for either colour:
\* pairs along the rows, shifted by two from one row to the next.
Pattern(row, col) == IF ((col + 2 * row) % 4) < 2 THEN "O" ELSE "X"

\* The cells of a set in row-major order.
RowMajor(S) ==
    [k \in 1 .. Cardinality(S) |->
        CHOOSE x \in S :
            Cardinality({y \in S : y[1] * BoardSize + y[2]
                                     < x[1] * BoardSize + x[2]}) = k - 1]

PatternCells(piece) ==
    RowMajor({x \in (Idx \X Idx) \ Arena : Pattern(x[1], x[2]) = piece})

\* White and Black alternately take the cells of two lists, White first.
Interleave(ws, bs) ==
    [k \in 1 .. (Len(ws) + Len(bs)) |->
        IF k % 2 = 1 THEN MoveText(ws[(k + 1) \div 2][1], ws[(k + 1) \div 2][2], "O")
        ELSE MoveText(bs[k \div 2][1], bs[k \div 2][2], "X")]

\* 220 moves that fill the board up to the arena, with no five in a row.
NearlyFullOpening == Interleave(PatternCells("O"), PatternCells("X"))

\* White holds H-08, J-10, K-11, L-12 on the diagonal through the arena cell
\* I-09; Black holds E-09, F-09, H-09, K-09 on the row of the arena cells
\* G-09, I-09, J-09.
CrossOpening ==
    Interleave(<<<<7, 7>>, <<9, 9>>, <<10, 10>>, <<11, 11>>>>,
               <<<<8, 4>>, <<8, 5>>, <<8, 7>>, <<8, 10>>>>)

Openings == {NearlyFullOpening, CrossOpening}

ArenaTexts ==
    {MoveText(c[1], c[2], "O") : c \in Arena}
        \cup {MoveText(c[1], c[2], "X") : c \in Arena}
        \cup MalformedTexts

InitPlay ==
    /\ gs \in {Replay(o) : o \in Openings}
    /\ arg = <<>>
    /\ ret = NilErr
    /\ probe = NoProbe
    /\ Untouched

NextPlay == \E moveStr \in ArenaTexts : Move(moveStr)

SpecPlay == InitPlay /\ [][NextPlay]_vars

-----------------------------------------------------------------------------
(* Moves and analysis requests interleaved on one GameState                *)

\* The analysis requests made in one run.
MaxAnalyses == 2

\* The nearly full position with three more moves: G-09 and H-10 are empty.
DrawOpening ==
    NearlyFullOpening
        \o <<MoveText(8, 8, "O"), MoveText(6, 6, "X"), MoveText(8, 9, "O")>>

AnalysisOpenings == {<<>>, CrossOpening, DrawOpening}

AnalysisTexts ==
    {MoveText(c[1], c[2], q) : c \in {<<8, 6>>, <<8, 8>>, <<9, 7>>}, q \in {"O", "X"}}

Responses ==
    {Failure, NoContent,
     TextResponse("White is ahead."), TextResponse("Black is ahead.")}

InitAnalyze ==
    /\ gs \in {Replay(o) : o \in AnalysisOpenings}
    /\ arg = <<>>
    /\ ret = NilErr
    /\ probe = NoProbe
    /\ Untouched

\* One call bp.AnalyzeGamePosition(gs); the collaborator, if called, answers
\* `response`.
Analyze(response) ==
    LET r == AnalyzeGamePosition(gs, response)
    IN  /\ out.n < MaxAnalyses
        /\ gs' = r.gs
        /\ out' = [op |-> "AnalyzeGamePosition", n |-> out.n + 1,
                   text |-> r.text, err |-> r.err, moves |-> Len(gs.Moves)]
        /\ bp' = IF r.generated
                 THEN Append(bp, [prompt   |-> createAnalysisPrompt(
                                                  gs, formatBoardForAnalysis(gs)),
                                  response |-> response])
                 ELSE bp
        /\ UNCHANGED <<arg, ret, probe, disk, png>>

NextAnalyze ==
    \/ \E moveStr \in AnalysisTexts : Move(moveStr)
    \/ \E response \in Responses : Analyze(response)

SpecAnalyze == InitAnalyze /\ [][NextAnalyze]_vars

-----------------------------------------------------------------------------
(* Packages storage, visual and cli (handler.go, png.go): the commands     *)

\* A rune of the board as encoding/json writes it, and back.
RuneCode(ch) == CASE ch = "+" -> 43 [] ch = "X" -> 88 [] ch = "O" -> 79

RuneOf(code) == CASE code = 43 -> "+" [] code = 88 -> "X" [] code = 79 -> "O"

\* A field with the omitempty option: left out of the object when it is the
\* zero value.  An optional value is <<>> when left out (or null) and <<v>>
\* when present.
Omitempty(v, zero) == IF v = zero THEN <<>> ELSE <<v>>

\* The encoding of a Go string as a JSON string: bytes that are not valid
\* UTF-8 are replaced by the replacement rune.
ToValidUTF8(text) ==
    [i \in 1 .. Len(text) |->
        IF text[i] = BadByte THEN ReplacementRune ELSE text[i]]

\* json.MarshalIndent(gs): the object with the keys of the struct tags.
Marshal(g) ==
    [board              |-> [r \in Idx |-> [c \in Idx |-> RuneCode(g.Board[r][c])]],
     moves              |-> [k \in 1 .. Len(g.Moves) |->
                                [player   |-> g.Moves[k].Player,
                                 position |-> ToValidUTF8(g.Moves[k].Position),
                                 move_num |-> g.Moves[k].MoveNum,
                                 piece    |-> RuneCode(g.Moves[k].Piece)]],
     current_turn       |-> g.CurrentTurn,
     winner             |-> IF g.Winner = Nil THEN <<>> ELSE <<g.Winner>>,
     game_over          |-> g.GameOver,
     analysis           |-> Omitempty(g.Analysis, ""),
     analysis_hash      |-> Omitempty(g.AnalysisHash, <<>>),
     current_board_hash |-> Omitempty(g.CurrentBoardHash, <<>>)]

\* json.Unmarshal(data, &gs): a key left out leaves the zero value.
Unmarshal(data) ==
    [Board            |-> [r \in Idx |-> [c \in Idx |-> RuneOf(data.board[r][c])]],
     Moves            |-> [k \in 1 .. Len(data.moves) |->
                              [Player   |-> data.moves[k].player,
                               Position |-> data.moves[k].position,
                               MoveNum  |-> data.moves[k].move_num,
                               Piece    |-> RuneOf(data.moves[k].piece)]],
     CurrentTurn      |-> data.current_turn,
     Winner           |-> IF Len(data.winner) = 0 THEN Nil ELSE data.winner[1],
     GameOver         |-> data.game_over,
     Analysis         |-> IF Len(data.analysis) = 0 THEN "" ELSE data.analysis[1],
     AnalysisHash     |-> IF Len(data.analysis_hash) = 0 THEN <<>>
                          ELSE data.analysis_hash[1],
     CurrentBoardHash |-> IF Len(data.current_board_hash) = 0 THEN <<>>
                          ELSE data.current_board_hash[1]]

\* The storage hash taking in the position of the last move as well.
storageGenerateBoardHashWithLastMove(g) ==
    <<"md5">> \o BoardData(g) \o <<"_", Len(g.Moves), "_", g.CurrentTurn>>
        \o (IF Len(g.Moves) = 0 THEN <<>> ELSE g.Moves[Len(g.Moves)].Position)

\* storage.GenerateBoardHash generates a unique hash for the current board
\* state: the md5 digest of the board written row by row, followed by "_",
\* the number of moves, "_" and the current turn.
storageGenerateBoardHash(g) ==
    <<"md5">> \o BoardData(g) \o <<"_", Len(g.Moves), "_", g.CurrentTurn>>

\* What a file holds after a write that failed once the file had been opened
\* (and so emptied): nothing or the beginning of the data, no whole content.
Truncated == [truncated |-> TRUE]

\* How a write of a whole file ends: the data written; the file refused
\* (not opened, left as it was); or the write cut short after the opening.
WriteOutcomes == {"written", "refused", "cut"}

\* os.WriteFile and gg.SavePNG: the file after the write.
WriteFile(file, data, outcome) ==
    IF outcome = "written" THEN <<data>>
    ELSE IF outcome = "refused" THEN file
    ELSE <<Truncated>>

\* SaveGameState saves the current game state to JSON file; `outcome` tells
\* how os.WriteFile ends.  (json.MarshalIndent does not fail on a GameState.)
SaveGameState(file, g, outcome) ==
    [file |-> WriteFile(file, Marshal(g), outcome),
     err  |-> IF outcome = "written" THEN NilErr
              ELSE Err("failed to write game state file: %w", <<>>, <<>>, 0)]

\* The nil *GameState LoadGameState returns with an error.
NoGameState == [nil |-> TRUE]

\* LoadGameState loads game state from JSON file: a new game state when the
\* file does not exist, an error when the file cannot be read (`readOk`) or
\* does not hold a whole snapshot.
LoadGameState(file, readOk) ==
    IF file = <<>> THEN [gs |-> NewGameState, err |-> NilErr]
    ELSE IF ~ readOk
    THEN [gs  |-> NoGameState,
          err |-> Err("failed to read game state file: %w", <<>>, <<>>, 0)]
    ELSE IF "truncated" \in DOMAIN file[1]
    THEN [gs  |-> NoGameState,
          err |-> Err("failed to unmarshal game state: %w", <<>>, <<>>, 0)]
    ELSE [gs |-> Unmarshal(file[1]), err |-> NilErr]

\* GameStateExists checks if a game state file exists
GameStateExists(file) == file # <<>>

\* DeleteGameState removes the game state file; `removeOk` tells whether
\* os.Remove succeeds.
DeleteGameState(file, removeOk) ==
    IF ~ GameStateExists(file) THEN [file |-> file, err |-> NilErr]
    ELSE IF removeOk THEN [file |-> <<>>, err |-> NilErr]
    ELSE [file |-> file,
          err  |-> Err("failed to delete game state file: %w", <<>>, <<>>, 0)]

-----------------------------------------------------------------------------
(* png.go: the image of the board                                          *)

\* max returns the larger of two integers.
max(a, b) == IF a > b THEN a ELSE b

\* min returns the smaller of two integers.
min(a, b) == IF a < b THEN a ELSE b

\* Lines 32-53: the bounds of the occupied cells; with no stone the bounds
\* keep their initial values BoardSize and -1.
OccupiedBounds(board) ==
    LET rows == {r \in Idx : \E c \in Idx : board[r][c] # "+"}
        cols == {c \in Idx : \E r \in Idx : board[r][c] # "+"}
    IN  IF rows = {}
        THEN [minRow |-> BoardSize, maxRow |-> -1,
              minCol |-> BoardSize, maxCol |-> -1]
        ELSE [minRow |-> CHOOSE r \in rows : \A s \in rows : r <= s,
              maxRow |-> CHOOSE r \in rows : \A s \in rows : r >= s,
              minCol |-> CHOOSE c \in cols : \A s \in cols : c <= s,
              maxCol |-> CHOOSE c \in cols : \A s \in cols : c >= s]

\* Lines 72-78: 3 cells of padding around an area under 4x4, else 1.
DisplayPadding(occupiedWidth, occupiedHeight) ==
    IF occupiedWidth < 4 /\ occupiedHeight < 4 THEN 3 ELSE 1

\* Mutant: the size is not limited to the board.
requiredSizeUncapped(occupiedRows, occupiedCols, padding) ==
    max(occupiedRows, occupiedCols) + 2 * padding

\* Lines 81-86: the side of the square, never larger than the board.
requiredSize(occupiedRows, occupiedCols, padding) ==
    min(max(occupiedRows, occupiedCols) + 2 * padding, BoardSize)

\* Lines 94-120: the score of the square of the given side that starts at
\* (startRow, startCol); <<>> when the square leaves a stone outside.
totalScore(b, padding, size, startRow, startCol) ==
    LET endRow    == startRow + size - 1
        endCol    == startCol + size - 1
        topPad    == b.minRow - startRow
        bottomPad == endRow - b.maxRow
        leftPad   == b.minCol - startCol
        rightPad  == endCol - b.maxCol
        rowDiff   == IF topPad - bottomPad < 0
                     THEN -(topPad - bottomPad) ELSE topPad - bottomPad
        colDiff   == IF leftPad - rightPad < 0
                     THEN -(leftPad - rightPad) ELSE leftPad - rightPad
        symmetryScore == -(rowDiff + colDiff)
        avgPadding    == (topPad + bottomPad + leftPad + rightPad) \div 4
        paddingDiff   == IF avgPadding - padding < 0
                         THEN -(avgPadding - padding) ELSE avgPadding - padding
        paddingScore  == -paddingDiff
    IN  IF /\ startRow <= b.minRow /\ endRow >= b.maxRow
           /\ startCol <= b.minCol /\ endCol >= b.maxCol
        THEN <<symmetryScore * 10 + paddingScore>>
        ELSE <<>>

\* Lines 88-128: the squares are tried row by row, k counting them from 0,
\* and a square replaces the best one only with a strictly higher score:
\* the loop ends on the first square, in that order, of the highest score
\* above the initial bestScore, or on the initial values when there is none.
enumerateSquares(b, padding, size, initial) ==
    LET span == BoardSize - size + 1
        score(k) == totalScore(b, padding, size, k \div span, k % span)
        better == {k \in 0 .. (span * span - 1) :
                      /\ score(k) # <<>>
                      /\ score(k)[1] > initial.bestScore}
    IN  IF better = {}
        THEN initial
        ELSE LET k == CHOOSE x \in better :
                          \A y \in better :
                              \/ score(y)[1] < score(x)[1]
                              \/ score(y)[1] = score(x)[1] /\ x <= y
             IN  [bestScore     |-> score(k)[1],
                  displayMinRow |-> k \div span,
                  displayMinCol |-> k % span]

\* calculateOptimalDisplayArea determines the area to display from the
\* stones on the board; the empty board shows the 7x7 centre.
calculateOptimalDisplayArea(g) ==
    LET b == OccupiedBounds(g.Board)
    IN  IF b.maxRow = -1
        THEN LET center == BoardSize \div 2
             IN  [MinRow |-> center - 3, MaxRow |-> center + 3,
                  MinCol |-> center - 3, MaxCol |-> center + 3,
                  Width  |-> 7, Height |-> 7]
        ELSE LET occupiedWidth  == b.maxCol - b.minCol + 1
                 occupiedHeight == b.maxRow - b.minRow + 1
                 padding == DisplayPadding(occupiedWidth, occupiedHeight)
                 size    == requiredSize(occupiedHeight, occupiedWidth, padding)
                 best    == enumerateSquares(b, padding, size,
                               [bestScore     |-> -1000,
                                displayMinRow |-> -1,
                                displayMinCol |-> -1])
                 displayMaxRow == best.displayMinRow + size - 1
                 displayMaxCol == best.displayMinCol + size - 1
             IN  [MinRow |-> best.displayMinRow,
                  MaxRow |-> displayMaxRow,
                  MinCol |-> best.displayMinCol,
                  MaxCol |-> displayMaxCol,
                  Width  |-> displayMaxCol - best.displayMinCol + 1,
                  Height |-> displayMaxRow - best.displayMinRow + 1]

\* Lines 256-262 and 280 of drawStones: the cell whose stone gets the
\* highlight ring, none when the position of the last move does not parse.
lastMoveCell(g) ==
    IF Len(g.Moves) = 0 THEN <<>>
    ELSE CHOOSE h \in {IF IsNil(p.err) /\ g.Board[p.Row][p.Col] # "+"
                       THEN <<<<p.Row, p.Col>>>> ELSE <<>> :
                          p \in {ParsePosition(g.Moves[Len(g.Moves)].Position)}} :
             TRUE

\* GenerateBoardImage creates a PNG visualization of the current board
\* state: the stones (all of them lie in the area shown, which is computed
\* from them), the highlighted last move and, when the game is over, the
\* status line; `outcome` tells how SavePNG ends.
GenerateBoardImage(image, g, outcome) ==
    [image |-> WriteFile(image,
                         [stones |-> g.Board,
                          last   |-> lastMoveCell(g),
                          status |-> IF g.GameOver THEN <<GetGameStatus(g)>>
                                     ELSE <<>>],
                         outcome),
     err   |-> IF outcome = "written" THEN NilErr
               ELSE Err("png", <<>>, <<>>, 0)]

\* The environment of one command: whether the snapshot can be read, how
\* the writes of the snapshot and of the image end, whether
\* AWS_BEARER_TOKEN_BEDROCK is set and whether the AWS configuration loads.
Envs == [read : BOOLEAN, save : WriteOutcomes, render : WriteOutcomes,
         token : BOOLEAN, config : BOOLEAN]

\* NewBedrockProvider: TRUE when a provider is returned, FALSE for nil.
NewBedrockProvider(env) == env.token /\ env.config

\* IsConfigured checks if AWS credentials are properly configured
IsConfigured(env) == env.token

\* The accepted move drawn first and saved afterwards.
drawThenSave(r, file, image, env) ==
    LET i == GenerateBoardImage(image, r.gs, env.render)
    IN  IF ~ IsNil(i.err)
        THEN [gs |-> r.gs, file |-> file, image |-> i.image, move |-> r.err,
              err |-> [i.err EXCEPT
                          !.fmt = "failed to generate board image: " \o @]]
        ELSE
        LET s == SaveGameState(file, r.gs, env.save)
        IN  IF ~ IsNil(s.err)
            THEN [gs |-> r.gs, file |-> s.file, image |-> i.image, move |-> r.err,
                  err |-> [s.err EXCEPT !.fmt = "failed to save game state: " \o @]]
            ELSE [gs |-> r.gs, file |-> s.file, image |-> i.image,
                  move |-> r.err, err |-> NilErr]

\* Lines 80-97 of handleMove: the accepted move is saved, then drawn.
saveAndDraw(r, file, image, env) ==
    LET s == SaveGameState(file, r.gs, env.save)
    IN  IF ~ IsNil(s.err)
        THEN [gs |-> r.gs, file |-> s.file, image |-> image, move |-> r.err,
              err |-> [s.err EXCEPT !.fmt = "failed to save game state: " \o @]]
        ELSE
        LET i == GenerateBoardImage(image, r.gs, env.render)
        IN  IF ~ IsNil(i.err)
            THEN [gs |-> r.gs, file |-> s.file, image |-> i.image, move |-> r.err,
                  err |-> [i.err EXCEPT
                              !.fmt = "failed to generate board image: " \o @]]
            ELSE [gs |-> r.gs, file |-> s.file, image |-> i.image,
                  move |-> r.err, err |-> NilErr]

\* The state saved even when MakeMove rejected the text.
moveMadeSavingRejected(r, file, image, env) ==
    IF ~ IsNil(r.err)
    THEN [gs |-> r.gs, file |-> SaveGameState(file, r.gs, "written").file,
          image |-> image, move |-> r.err,
          err |-> [r.err EXCEPT !.fmt = "invalid move: " \o @]]
    ELSE saveAndDraw(r, file, image, env)

\* Lines 63-97 of handleMove, r being the result of MakeMove on the loaded
\* state.
moveMade(r, file, image, env) ==
    IF ~ IsNil(r.err)
    THEN [gs |-> r.gs, file |-> file, image |-> image, move |-> r.err,
          err |-> [r.err EXCEPT !.fmt = "invalid move: " \o @]]
    ELSE saveAndDraw(r, file, image, env)

\* The error a command returns when LoadGameState failed.
loadFailed(e) == [e EXCEPT !.fmt = "failed to load game state: " \o @]

LoadFailures ==
    {"failed to load game state: failed to read game state file: %w",
     "failed to load game state: failed to unmarshal game state: %w"}

\* handleMove processes a move command: the files after it, the state in
\* memory, the error of MakeMove and the error the command returns.
handleMove(file, image, moveStr, env) ==
    CHOOSE h \in UNION {IF IsNil(l.err)
                        THEN {moveMade(r, file, image, env) :
                                 r \in {MakeMove(l.gs, moveStr)}}
                        ELSE {[gs |-> l.gs, file |-> file, image |-> image,
                               move |-> NilErr, err |-> loadFailed(l.err)]} :
                           l \in {LoadGameState(file, env.read)}} : TRUE

\* Lines 154-174 of handleAnalyze, g being the loaded state.
analyzeLoaded(g, file, env, response) ==
    IF ~ NewBedrockProvider(env)
    THEN [gs |-> g, file |-> file, text |-> "", generated |-> FALSE,
          err |-> Err("AI analysis not available - AWS credentials not configured",
                      <<>>, <<>>, 0)]
    ELSE IF ~ IsConfigured(env)
    THEN [gs |-> g, file |-> file, text |-> "", generated |-> FALSE,
          err |-> Err("AI analysis not available - missing AWS credentials",
                      <<>>, <<>>, 0)]
    ELSE
    LET r == AnalyzeGamePosition(g, response)
    IN  IF ~ IsNil(r.err)
        THEN [gs |-> r.gs, file |-> file, text |-> "", generated |-> r.generated,
              err |-> [r.err EXCEPT !.fmt = "failed to analyze position: " \o @]]
        ELSE [gs |-> r.gs, file |-> file, text |-> r.text,
              generated |-> r.generated, err |-> NilErr]

\* handleAnalyze performs AI analysis of current position: the state in
\* memory, the snapshot file (never written), the text printed, whether the
\* collaborator was called, and the error the command returns.
handleAnalyze(file, env, response) ==
    CHOOSE h \in {IF IsNil(l.err)
                  THEN analyzeLoaded(l.gs, file, env, response)
                  ELSE [gs |-> l.gs, file |-> file, text |-> "",
                        generated |-> FALSE, err |-> loadFailed(l.err)] :
                     l \in {LoadGameState(file, env.read)}} : TRUE

\* GetMoveHistory returns formatted move history: the values each line
\* "%d. %s-%c (%s)" is formatted from.
GetMoveHistory(g) ==
    [i \in 1 .. Len(g.Moves) |->
        <<g.Moves[i].MoveNum, g.Moves[i].Position, g.Moves[i].Piece,
          g.Moves[i].Player>>]

\* handleStatus shows current game status with ASCII board: the state
\* loaded, the snapshot file (never written), the lines printed and the
\* error returned.
statusLoaded(g, file) ==
    [gs     |-> g,
     file   |-> file,
     status |-> <<GetGameStatus(g)>>,
     total  |-> Len(g.Moves),
     last   |-> IF Len(g.Moves) > 0
                THEN <<GetMoveHistory(g)[Len(g.Moves)]>> ELSE <<>>,
     board  |-> <<g.Board>>,
     err    |-> NilErr]

handleStatus(file, env) ==
    CHOOSE h \in {IF IsNil(l.err)
                  THEN statusLoaded(l.gs, file)
                  ELSE [gs |-> l.gs, file |-> file, status |-> <<>>,
                        total |-> 0, last |-> <<>>, board |-> <<>>,
                        err |-> loadFailed(l.err)] :
                     l \in {LoadGameState(file, env.read)}} : TRUE

\* handleHistory shows move history: the state loaded, the snapshot file
\* (never written), the lines printed and the error returned.
historyLoaded(g, file) ==
    [gs     |-> g,
     file   |-> file,
     total  |-> Len(g.Moves),
     lines  |-> GetMoveHistory(g),
     status |-> IF Len(g.Moves) = 0 THEN <<>> ELSE <<GetGameStatus(g)>>,
     err    |-> NilErr]

handleHistory(file, env) ==
    CHOOSE h \in {IF IsNil(l.err)
                  THEN historyLoaded(l.gs, file)
                  ELSE [gs |-> l.gs, file |-> file, total |-> 0,
                        lines |-> <<>>, status |-> <<>>,
                        err |-> loadFailed(l.err)] :
                     l \in {LoadGameState(file, env.read)}} : TRUE

\* The commands run one after the other.
MaxCommands == 3

CommandTexts ==
    {MoveText(8, 8, "O"), MoveText(8, 6, "O"), MoveText(8, 6, "X")}

CommandResponses == {Failure, TextResponse("White is ahead.")}

\* No snapshot yet, or the snapshot the move commands of an opening leave.
InitCommands ==
    /\ \E o \in {<<>>, CrossOpening} :
           /\ gs = Replay(o)
           /\ disk = IF Len(o) = 0 THEN <<>> ELSE <<Marshal(Replay(o))>>
    /\ arg = <<>>
    /\ ret = NilErr
    /\ probe = NoProbe
    /\ out = NoOut
    /\ bp = <<>>
    /\ png = <<>>

\* The command "gomoku move <moveStr>" run in environment env.  A command
\* that could not load the state has no GameState and makes no MakeMove call.
CmdMove(moveStr, env) ==
    \E r \in {handleMove(disk, png, moveStr, env)} :
        /\ out.n < MaxCommands
        /\ gs' = IF r.err.fmt \in LoadFailures THEN gs ELSE r.gs
        /\ arg' = IF r.err.fmt \in LoadFailures THEN arg ELSE moveStr
        /\ ret' = IF r.err.fmt \in LoadFailures THEN ret ELSE r.move
        /\ disk' = r.file
        /\ png' = r.image
        /\ out' = [op |-> "move", n |-> out.n + 1, text |-> "", err |-> r.err,
                   moves |-> IF r.err.fmt \in LoadFailures THEN 0
                             ELSE Len(r.gs.Moves)]
        /\ UNCHANGED <<probe, bp>>

\* The command "gomoku analyze" run in environment env; the collaborator, if
\* called, answers `response`.
CmdAnalyze(env, response) ==
    \E r \in {handleAnalyze(disk, env, response)} :
    \E l \in {LoadGameState(disk, env.read)} :
        /\ out.n < MaxCommands
        /\ gs' = IF r.err.fmt \in LoadFailures THEN gs ELSE r.gs
        /\ disk' = r.file
        /\ out' = [op |-> "analyze", n |-> out.n + 1, text |-> r.text,
                   err |-> r.err,
                   moves |-> IF r.err.fmt \in LoadFailures THEN 0
                             ELSE Len(r.gs.Moves)]
        /\ bp' = IF r.generated
                 THEN Append(bp, [prompt   |-> createAnalysisPrompt(
                                                  l.gs, formatBoardForAnalysis(l.gs)),
                                  response |-> response])
                 ELSE bp
        /\ UNCHANGED <<arg, ret, probe, png>>

\* The command "gomoku status" run in environment env.
CmdStatus(env) ==
    \E r \in {handleStatus(disk, env)} :
        /\ out.n < MaxCommands
        /\ gs' = IF r.err.fmt \in LoadFailures THEN gs ELSE r.gs
        /\ disk' = r.file
        /\ out' = [op |-> "status", n |-> out.n + 1, text |-> "", err |-> r.err,
                   moves |-> r.total]
        /\ UNCHANGED <<arg, ret, probe, bp, png>>

\* The command "gomoku history" run in environment env.
CmdHistory(env) ==
    \E r \in {handleHistory(disk, env)} :
        /\ out.n < MaxCommands
        /\ gs' = IF r.err.fmt \in LoadFailures THEN gs ELSE r.gs
        /\ disk' = r.file
        /\ out' = [op |-> "history", n |-> out.n + 1, text |-> "", err |-> r.err,
                   moves |-> r.total]
        /\ UNCHANGED <<arg, ret, probe, bp, png>>

\* The environments of each command, the parts it does not look at fixed:
\* a move command makes no use of the analyzer, an analyze command writes no
\* file, and the status and history commands do neither.
MoveEnvs == {env \in Envs : env.token /\ env.config}

AnalyzeEnvs == {env \in Envs : env.save = "written" /\ env.render = "written"}

QueryEnvs == MoveEnvs \cap AnalyzeEnvs

NextCommands ==
    \/ \E moveStr \in CommandTexts : \E env \in MoveEnvs : CmdMove(moveStr, env)
    \/ \E env \in AnalyzeEnvs : \E response \in CommandResponses :
           CmdAnalyze(env, response)
    \/ \E env \in QueryEnvs : CmdStatus(env)
    \/ \E env \in QueryEnvs : CmdHistory(env)

SpecCommands == InitCommands /\ [][NextCommands]_vars

-----------------------------------------------------------------------------
(* The status asked for during play                                        *)

\* The calls of GetGameStatus in one run.
MaxStatusCalls == 2

NoStatus == [op |-> "GetGameStatus", n |-> 0, status |-> <<>>]

InitStatus ==
    /\ gs \in {Replay(o) : o \in AnalysisOpenings}
    /\ arg = <<>>
    /\ ret = NilErr
    /\ probe = NoStatus
    /\ Untouched

\* One call gs.GetGameStatus().
CallGetGameStatus ==
    /\ probe.n < MaxStatusCalls
    /\ probe' = [op |-> "GetGameStatus", n |-> probe.n + 1,
                 status |-> GetGameStatus(gs)]
    /\ UNCHANGED <<gs, arg, ret, out, bp, disk, png>>

NextStatus ==
    \/ \E moveStr \in AnalysisTexts : Move(moveStr)
    \/ CallGetGameStatus

SpecStatus == InitStatus /\ [][NextStatus]_vars

-----------------------------------------------------------------------------
(* A GameState saved and loaded during play                                *)

\* "A-5" followed by a byte that is not valid UTF-8: a row text of two bytes
\* of which fmt.Sscanf reads the first.
BadRowText(piece) == <<"A", "-", "5", BadByte, "-", piece>>

StoreTexts == {MoveText(8, 6, "O"), BadRowText("O"), BadRowText("X")}

NotStored == [op |-> "SaveThenLoad", done |-> FALSE, err |-> NilErr,
              loadErr |-> NilErr, saved |-> NewGameState,
              loaded |-> NewGameState]

InitStore ==
    /\ gs \in {Replay(o) : o \in AnalysisOpenings}
    /\ arg = <<>>
    /\ ret = NilErr
    /\ probe = NotStored
    /\ Untouched

\* storage.SaveGameState(g) followed by storage.LoadGameState().
saveThenLoad(file, g, outcome, readOk) ==
    CHOOSE h \in {[file |-> s.file, err |-> s.err,
                   load |-> LoadGameState(s.file, readOk)] :
                     s \in {SaveGameState(file, g, outcome)}} : TRUE

\* The state is saved and loaded once during the play, which goes on with
\* the state loaded (with the state it had when none could be loaded).
SaveThenLoad(outcome, readOk) ==
    \E r \in {saveThenLoad(disk, gs, outcome, readOk)} :
        /\ ~ probe.done
        /\ disk' = r.file
        /\ gs' = IF IsNil(r.load.err) THEN r.load.gs ELSE gs
        /\ probe' = [op |-> "SaveThenLoad", done |-> TRUE, err |-> r.err,
                     loadErr |-> r.load.err, saved |-> gs,
                     loaded |-> IF IsNil(r.load.err) THEN r.load.gs ELSE gs]
        /\ UNCHANGED <<arg, ret, out, bp, png>>

\* One call storage.DeleteGameState().
CallDeleteGameState(removeOk) ==
    \E r \in {DeleteGameState(disk, removeOk)} :
        /\ probe.done
        /\ disk' = r.file
        /\ probe' = [probe EXCEPT !.op = "DeleteGameState", !.err = r.err]
        /\ UNCHANGED <<gs, arg, ret, out, bp, png>>

NextStore ==
    \/ \E moveStr \in StoreTexts : Move(moveStr)
    \/ \E response \in CommandResponses : Analyze(response)
    \/ \E outcome \in WriteOutcomes : \E readOk \in BOOLEAN :
           SaveThenLoad(outcome, readOk)
    \/ \E removeOk \in BOOLEAN : CallDeleteGameState(removeOk)

SpecStore == InitStore /\ [][NextStore]_vars

-----------------------------------------------------------------------------
(* Vocabulary of the properties, defined without the operators of the      *)
(* model of MakeMove                                                        *)

Other(player) == IF player = "WHITE" THEN "BLACK" ELSE "WHITE"

PieceOf(player) == IF player = "WHITE" THEN "O" ELSE "X"

\* A move text of the documented form: one letter A..O, a hyphen, two digits
\* making 01..15, a hyphen, and X or O.
WellFormed(text) ==
    /\ Len(text) = 6
    /\ \E i \in 1 .. 15 : ColumnLetters[i] = text[1]
    /\ text[2] = "-"
    /\ text[3] \in DigitSet
    /\ text[4] \in DigitSet
    /\ 10 * DigitVal(text[3]) + DigitVal(text[4]) \in 1 .. 15
    /\ text[5] = "-"
    /\ text[6] \in {"X", "O"}

\* The row and column indices a well-formed move text names.
RowOf(text) == 10 * DigitVal(text[3]) + DigitVal(text[4]) - 1

ColOf(text) == (CHOOSE i \in 1 .. 15 : ColumnLetters[i] = text[1]) - 1

\* The kind of rejection an error reports, read from its message.
ErrKind(e) ==
    IF e.fmt = "" THEN "Accepted"
    ELSE IF e.fmt \in {"game is over, %s has won", "game is over (draw)"}
    THEN "GameAlreadyOver"
    ELSE IF e.fmt = "it's %s's turn, not %s's turn" THEN "WrongTurn"
    ELSE IF e.fmt = "position %s is out of bounds" THEN "OutOfBounds"
    ELSE IF e.fmt = "position %s is already occupied" THEN "SquareOccupied"
    ELSE "MalformedMove"

\* The first rejection reason that applies to a text in a state, in the
\* order GameAlreadyOver, MalformedMove, WrongTurn, OutOfBounds,
\* SquareOccupied.
FirstReason(g, text) ==
    IF g.GameOver THEN "GameAlreadyOver"
    ELSE IF ~ WellFormed(text) THEN "MalformedMove"
    ELSE IF PieceOf(g.CurrentTurn) # text[6] THEN "WrongTurn"
    ELSE IF RowOf(text) \notin Idx \/ ColOf(text) \notin Idx THEN "OutOfBounds"
    ELSE IF g.Board[RowOf(text)][ColOf(text)] # "+" THEN "SquareOccupied"
    ELSE "Accepted"

InBoard(row, col) == row \in Idx /\ col \in Idx

Axes == {<<0, 1>>, <<1, 0>>, <<1, 1>>, <<1, -1>>}

\* Five consecutive cells of one piece starting at (row, col) along axis d.
FiveFrom(board, row, col, d, piece) ==
    \A k \in 0 .. 4 :
        /\ InBoard(row + k * d[1], col + k * d[2])
        /\ board[row + k * d[1]][col + k * d[2]] = piece

HasFive(board, piece) ==
    \E row \in Idx : \E col \in Idx :
        /\ board[row][col] = piece
        /\ \E d \in Axes : FiveFrom(board, row, col, d, piece)

\* A five of the piece along one axis that contains the cell (row, col).
FiveThrough(board, row, col, piece) ==
    \E d \in Axes : \E k \in 0 .. 4 :
        FiveFrom(board, row - k * d[1], col - k * d[2], d, piece)

Full(board) == \A row \in Idx : \A col \in Idx : board[row][col] # "+"

Stones(board) ==
    Cardinality({x \in Idx \X Idx : board[x[1]][x[2]] # "+"})

LastMove(g) == g.Moves[Len(g.Moves)]

\* The cell <<row, col>> a position text "H-08" of a move record names.
CellOf(position) ==
    <<10 * DigitVal(position[3]) + DigitVal(position[4]) - 1,
      (CHOOSE i \in 1 .. 15 : ColumnLetters[i] = position[1]) - 1>>

-----------------------------------------------------------------------------
(* Properties                                                              *)

\* C1: a MakeMove call that returns an error leaves the whole GameState
\* (board, moves, turn, game-over flag, winner, hashes, analysis) as it was.
C1_RejectionLeavesState == [][(~ IsNil(ret')) => gs' = gs]_vars

\* A move onto an occupied cell has been rejected on a board with stones.
C1_Witness ==
    /\ ErrKind(ret) = "SquareOccupied"
    /\ Len(gs.Moves) > 0

\* C2: the error reported is the first reason that applies, in the order
\* GameAlreadyOver, MalformedMove, WrongTurn, OutOfBounds, SquareOccupied.
C2_FirstReasonWins == [][ErrKind(ret') = FirstReason(gs, arg')]_vars

\* A well-formed move of the wrong colour onto an occupied cell has been
\* rejected as wrong-turn.
C2_Witness ==
    /\ ErrKind(ret) = "WrongTurn"
    /\ WellFormed(arg)
    /\ gs.Board[RowOf(arg)][ColOf(arg)] # "+"

\* C3: once GameOver is true, every call is rejected, naming the winner when
\* there is one and the draw when there is none, and the state stays as it is.
C3_TerminalAbsorbing ==
    [][gs.GameOver =>
          /\ gs' = gs
          /\ ret' = IF gs.Winner # Nil
                    THEN Err("game is over, %s has won", <<gs.Winner>>, <<>>, 0)
                    ELSE Err("game is over (draw)", <<>>, <<>>, 0)]_vars

\* A call on a drawn game has been rejected with the draw message.
C3_Witness ==
    /\ gs.GameOver
    /\ gs.Winner = Nil
    /\ ret.fmt = "game is over (draw)"

\* C4: an accepted move that does not end the game passes the turn to the
\* other colour; the accepted move that ends it, and every rejected move,
\* leave CurrentTurn as it was.
C4_TurnAlternation ==
    [][IF IsNil(ret') /\ ~ gs'.GameOver
       THEN gs'.CurrentTurn = Other(gs.CurrentTurn)
       ELSE gs'.CurrentTurn = gs.CurrentTurn]_vars

\* The move that fills the board without a five has just been accepted.
C4_Witness ==
    /\ IsNil(ret)
    /\ gs.GameOver
    /\ gs.Winner = Nil
    /\ Len(gs.Moves) = BoardSize * BoardSize

\* C5: an accepted move changes exactly the cell its text names, from empty
\* to the piece its text names; no call changes a non-empty cell.
C5_OneCellPerMove ==
    [][/\ IsNil(ret') =>
            /\ WellFormed(arg')
            /\ gs.Board[RowOf(arg')][ColOf(arg')] = "+"
            /\ gs'.Board = [gs.Board EXCEPT ![RowOf(arg')][ColOf(arg')] = arg'[6]]
       /\ \A row \in Idx : \A col \in Idx :
            gs.Board[row][col] # "+" => gs'.Board[row][col] = gs.Board[row][col]
      ]_vars

\* Black has just placed a stone on a cell of the arena.
C5_Witness ==
    /\ IsNil(ret)
    /\ WellFormed(arg)
    /\ arg[6] = "X"
    /\ gs.Board[RowOf(arg)][ColOf(arg)] = "X"

\* C6: the number of move records equals the number of non-empty cells.
C6_MovesCountStones == Len(gs.Moves) = Stones(gs.Board)

\* Nine moves have been played from the fresh state.
C6_Witness == Len(gs.Moves) = 9 /\ Stones(gs.Board) = 9

\* C7: in a finished game with a winner, the winner's piece forms five in a
\* row along one axis through the cell of the last recorded move.
C7_WinnerHasFive ==
    (gs.GameOver /\ gs.Winner # Nil) =>
        LET cell == CellOf(LastMove(gs).Position)
        IN  FiveThrough(gs.Board, cell[1], cell[2], PieceOf(gs.Winner))

\* Black has won.
C7_Witness == gs.GameOver /\ gs.Winner = "BLACK"

\* C8: a drawn game has a full board with no five in a row of either colour
\* anywhere.
C8_DrawFullNoFive ==
    (gs.GameOver /\ gs.Winner = Nil) =>
        /\ Full(gs.Board)
        /\ ~ HasFive(gs.Board, "O")
        /\ ~ HasFive(gs.Board, "X")

\* A game has ended in a draw.
C8_Witness == gs.GameOver /\ gs.Winner = Nil

\* C9: the game is over with the mover as winner exactly when the board
\* holds a five in a row, which is then the last mover's; with no five on a
\* board that is not full the game is live.
C9_WinExactness ==
    /\ ~ gs.GameOver <=>
           (~ HasFive(gs.Board, "O") /\ ~ HasFive(gs.Board, "X") /\ ~ Full(gs.Board))
    /\ \A player \in {"WHITE", "BLACK"} :
           HasFive(gs.Board, PieceOf(player)) <=>
               /\ gs.GameOver
               /\ gs.Winner = player
               /\ LastMove(gs).Player = player

\* White has won with the row A-01 .. E-01, the fifth stone on the ninth move.
C9_Witness ==
    /\ gs.GameOver
    /\ gs.Winner = "WHITE"
    /\ Len(gs.Moves) = 9
    /\ \A col \in 0 .. 4 : gs.Board[0][col] = "O"

\* The player a piece belongs to.
PlayerOf(piece) == IF piece = "O" THEN "WHITE" ELSE "BLACK"

\* The step is an accepted move that fills the last empty cell.
FillsBoard ==
    /\ IsNil(ret')
    /\ WellFormed(arg')
    /\ ~ Full(gs.Board)
    /\ Full(gs'.Board)

\* C11: an accepted move that fills the last empty cell and completes a five
\* of the mover's piece through its cell ends the game with the mover as
\* winner, not as a draw.
C11_FullBoardWinIsWin ==
    [][(FillsBoard /\ FiveThrough(gs'.Board, RowOf(arg'), ColOf(arg'), arg'[6]))
          => (gs'.GameOver /\ gs'.Winner = PlayerOf(arg'[6]))]_vars

\* The 225th move has been accepted and the game has a winner.
C11_Witness ==
    /\ IsNil(ret)
    /\ Len(gs.Moves) = BoardSize * BoardSize
    /\ Full(gs.Board)
    /\ gs.GameOver
    /\ gs.Winner # Nil

\* C12: an accepted move that fills the last empty cell without completing
\* a five of the mover's piece through its cell ends the game with no winner.
C12_FullBoardNoFiveIsDraw ==
    [][(FillsBoard /\ ~ FiveThrough(gs'.Board, RowOf(arg'), ColOf(arg'), arg'[6]))
          => (gs'.GameOver /\ gs'.Winner = Nil)]_vars

\* The last accepted move filled the board, no colour has a five, and the
\* game is over without a winner.
C12_Witness ==
    /\ IsNil(ret)
    /\ Full(gs.Board)
    /\ ~ HasFive(gs.Board, "O")
    /\ ~ HasFive(gs.Board, "X")
    /\ gs.GameOver
    /\ gs.Winner = Nil

\* The step is an accepted move: one record was appended to the move list.
AcceptedMove == Len(gs'.Moves) = Len(gs.Moves) + 1

\* C13: after every accepted move, whatever its outcome, CurrentBoardHash is
\* GenerateBoardHash of the new board and differs from the value stored
\* before the move.
C13_HashFollowsBoard ==
    [][AcceptedMove =>
          /\ gs'.CurrentBoardHash = GenerateBoardHash(gs')
          /\ gs'.CurrentBoardHash # gs.CurrentBoardHash]_vars

\* C14: after every accepted move, whatever its outcome, the cached analysis
\* text and its hash tag are empty.
C14_AnalysisClearedByMove ==
    [][AcceptedMove => (gs'.Analysis = "" /\ gs'.AnalysisHash = <<>>)]_vars

\* The step is one call of AnalyzeGamePosition.
AnalysisCall == out'.n = out.n + 1

\* The calls of the log that the collaborator answered with a text.
Answered(log) ==
    {i \in 1 .. Len(log) : log[i].response.ok /\ Len(log[i].response.content) > 0}

\* The board written in a prompt is the board b.
PromptShows(prompt, b) ==
    \A r \in Idx : \A c \in Idx : prompt.board[r + 1][c + 1] = b[r][c]

\* C15: an analysis request answered without a collaborator call returns a
\* text that the collaborator generated for the current board; and a request
\* made after a move was accepted since the previous request calls the
\* collaborator again.
C15_NoStaleCacheAnswer ==
    [][AnalysisCall =>
          /\ bp' = bp =>
                /\ Answered(bp) # {}
                /\ PromptShows(
                       bp[CHOOSE i \in Answered(bp) : \A j \in Answered(bp) : j <= i].prompt,
                       gs.Board)
          /\ (out.n > 0 /\ Len(gs.Moves) > out.moves) => Len(bp') = Len(bp) + 1]_vars

\* The cached text is valid for the state: not empty and tagged with the
\* current board hash.
CacheValid(g) == g.Analysis # "" /\ g.AnalysisHash = g.CurrentBoardHash

\* The cache gate of one analysis call, the text of a cache hit being the
\* stored text after `marker`.
CacheGate(marker) ==
    AnalysisCall =>
        IF CacheValid(gs)
        THEN /\ out'.text = marker \o gs.Analysis
             /\ IsNil(out'.err)
             /\ bp' = bp
             /\ gs' = gs
        ELSE /\ Len(bp') = Len(bp) + 1
             /\ SubSeq(bp', 1, Len(bp)) = bp
             /\ LET a == bp'[Len(bp')].response
                IN  (a.ok /\ Len(a.content) > 0) =>
                        /\ gs' = [gs EXCEPT !.Analysis = a.content[1],
                                            !.AnalysisHash = gs.CurrentBoardHash]
                        /\ out'.text = a.content[1]
                        /\ IsNil(out'.err)

\* C16 as claimed: on a valid cache the call returns exactly the stored
\* text, without a collaborator call and without a change of the state;
\* otherwise it calls the collaborator once and on success stores the text
\* tagged with CurrentBoardHash.
C16_CacheGateVerbatim == [][CacheGate("")]_vars

\* C16 as amended: the same, the text returned on a valid cache being the
\* line "[CACHED ANALYSIS]" followed by exactly the stored text.
C16_CacheGateMarked == [][CacheGate("[CACHED ANALYSIS]\n")]_vars

\* A second request has been answered from the cache of a board with a
\* non-empty hash, after one collaborator call.
C16_Witness ==
    /\ out.n = 2
    /\ Len(bp) = 1
    /\ gs.Analysis # ""
    /\ gs.CurrentBoardHash # <<>>
    /\ out.text = "[CACHED ANALYSIS]\n" \o gs.Analysis

\* C17: of two analyze commands that succeed one right after the other, with
\* no move command between them, the second does not call the collaborator.
C17_SecondAnalyzeFromCache ==
    [][(/\ out.op = "analyze"
        /\ IsNil(out.err)
        /\ out'.op = "analyze"
        /\ out'.n = out.n + 1
        /\ IsNil(out'.err)) => bp' = bp]_vars

-----------------------------------------------------------------------------
(* CheckWin as a function of the board, the cell and the player            *)

\* The longest arm of stones a probed board lays out on each side of the cell.
MaxArm == 5

ProbeCells == {<<7, 7>>, <<0, 0>>, <<14, 14>>, <<0, 7>>, <<11, 3>>}

\* A value no offset on the board takes.
NoOffset == 2 * BoardSize

\* The k with (dr, dc) = k * d, or NoOffset when (dr, dc) is not on the axis.
Offset(d, dr, dc) ==
    IF d[1] = 0 THEN (IF dr = 0 THEN dc ELSE NoOffset)
    ELSE IF dc = dr * d[2] THEN dr ELSE NoOffset

\* A board with the piece q on the cell, `fwd` more q's after it and `back`
\* before it along axis d, then the cell `stop` (empty or the other piece)
\* and one more q behind it; and `cross` q's on each side along axis e.
LineBoard(cell, q, d, fwd, back, stop, e, cross) ==
    [r \in Idx |-> [c \in Idx |->
        LET k == Offset(d, r - cell[1], c - cell[2])
            j == Offset(e, r - cell[1], c - cell[2])
        IN  IF k # NoOffset /\ k >= 0 - back /\ k <= fwd THEN q
            ELSE IF k = fwd + 1 THEN stop
            ELSE IF k = fwd + 2 THEN q
            ELSE IF j # NoOffset /\ j >= 0 - cross /\ j <= cross THEN q
            ELSE "+"]]

ProbeBoards(cell, q) ==
    {LineBoard(cell, q, d, fwd, back, stop, e, cross) :
        d \in Axes, fwd \in 0 .. MaxArm, back \in 0 .. MaxArm,
        stop \in {"+", IF q = "O" THEN "X" ELSE "O"},
        e \in Axes, cross \in 0 .. 2}

InitCheckWin ==
    /\ \E cell \in ProbeCells : \E player \in {PlayerBlack, PlayerWhite} :
           /\ probe = [op |-> "CheckWin",
                       pos |-> [Row |-> cell[1], Col |-> cell[2]],
                       player |-> player, done |-> FALSE, result |-> FALSE]
           /\ \E b \in ProbeBoards(cell, GetPieceForPlayer(player)) :
                  gs = [NewGameState EXCEPT !.Board = b]
    /\ arg = <<>>
    /\ ret = NilErr
    /\ Untouched

\* One call gs.CheckWin(pos, player).
CallCheckWin ==
    /\ probe.op = "CheckWin"
    /\ ~ probe.done
    /\ probe' = [probe EXCEPT !.done = TRUE,
                              !.result = CheckWin(gs, probe.pos, probe.player)]
    /\ UNCHANGED <<gs, arg, ret, out, bp, disk, png>>

NextCheckWin == CallCheckWin

SpecCheckWin == InitCheckWin /\ [][NextCheckWin]_vars

\* The number of cells after (row, col), stepping by (dr, dc), that hold the
\* piece before the first cell that does not or the edge of the board.
Arm(board, row, col, dr, dc, piece) ==
    Cardinality({k \in 1 .. BoardSize :
        \A j \in 1 .. k : /\ InBoard(row + j * dr, col + j * dc)
                          /\ board[row + j * dr][col + j * dc] = piece})

\* The length of the maximal run of the piece through (row, col) along axis d.
RunLength(board, row, col, d, piece) ==
    1 + Arm(board, row, col, d[1], d[2], piece)
      + Arm(board, row, col, 0 - d[1], 0 - d[2], piece)

\* C10: CheckWin(pos, player) is true exactly when, on one of the four axes,
\* the maximal run of the player's piece through pos has length 5 or more.
C10_CheckWinIffRunOfFive ==
    probe.done =>
        (probe.result <=>
            \E d \in Axes :
                RunLength(gs.Board, probe.pos.Row, probe.pos.Col, d,
                          PieceOf(probe.player)) >= 5)

\* CheckWin has answered no on a board where the runs through the cell on two
\* axes are both shorter than five and together hold five stones or more.
C10_Witness ==
    /\ probe.done
    /\ ~ probe.result
    /\ \E d \in Axes : \E e \in Axes \ {d} :
           RunLength(gs.Board, probe.pos.Row, probe.pos.Col, d, PieceOf(probe.player))
             + RunLength(gs.Board, probe.pos.Row, probe.pos.Col, e, PieceOf(probe.player))
             - 1 >= 5

-----------------------------------------------------------------------------
(* The two hash functions as functions of a GameState value                *)

\* Two games of four moves that reach the same board in different orders.
FourMoves ==
    Interleave(<<<<7, 7>>, <<9, 9>>>>, <<<<8, 4>>, <<8, 5>>>>)

FourMovesTransposed ==
    Interleave(<<<<9, 9>>, <<7, 7>>>>, <<<<8, 5>>, <<8, 4>>>>)

HashGames ==
    {Replay(o) : o \in {<<>>, FourMoves, FourMovesTransposed, CrossOpening}}

\* The GameState values the hash functions are applied to: the states of
\* the games above and, as a caller or a snapshot file may hold them, the
\* same boards with either turn and with the move list whole or without its
\* last record.
HashStates ==
    {[g EXCEPT !.CurrentTurn = t,
               !.Moves = SubSeq(@, 1, IF n > Len(@) THEN 0 ELSE Len(@) - n)] :
        g \in HashGames, t \in {PlayerWhite, PlayerBlack}, n \in 0 .. 1}

InitHash ==
    /\ gs \in HashStates
    /\ \E other \in HashStates :
           probe = [op |-> "GenerateBoardHash", other |-> other, done |-> FALSE,
                    game |-> <<>>, storage |-> <<>>]
    /\ arg = <<>>
    /\ ret = NilErr
    /\ Untouched

\* Both hash functions applied to both states.
CallHash ==
    /\ probe.op = "GenerateBoardHash"
    /\ ~ probe.done
    /\ probe' = [probe EXCEPT
                    !.done = TRUE,
                    !.game = <<GenerateBoardHash(gs), GenerateBoardHash(probe.other)>>,
                    !.storage = <<storageGenerateBoardHash(gs),
                                  storageGenerateBoardHash(probe.other)>>]
    /\ UNCHANGED <<gs, arg, ret, out, bp, disk, png>>

NextHash == CallHash

SpecHash == InitHash /\ [][NextHash]_vars

\* C18 as claimed: for two states with the same Board, the game hash and the
\* storage hash each give the same digest for both, whatever their move
\* lists and turns.
C18_BothHashesBoardOnly ==
    (probe.done /\ gs.Board = probe.other.Board) =>
        /\ probe.game[1] = probe.game[2]
        /\ probe.storage[1] = probe.storage[2]

\* C18 as amended: for two states with the same Board the game hash gives
\* the same digest, and the storage hash gives the same digest exactly when
\* the two states also have the same number of moves and the same turn.
C18_GameHashBoardOnly ==
    (probe.done /\ gs.Board = probe.other.Board) =>
        /\ probe.game[1] = probe.game[2]
        /\ probe.storage[1] = probe.storage[2]
              <=> /\ Len(gs.Moves) = Len(probe.other.Moves)
                  /\ gs.CurrentTurn = probe.other.CurrentTurn

\* Two states with the same board and as many moves, made in different
\* orders, and different turns have been hashed: the game digests agree, the
\* storage digests do not.
C18_Witness ==
    /\ probe.done
    /\ gs.Board = probe.other.Board
    /\ Len(gs.Moves) = 4
    /\ Len(probe.other.Moves) = 4
    /\ gs.Moves # probe.other.Moves
    /\ gs.CurrentTurn # probe.other.CurrentTurn
    /\ probe.game[1] = probe.game[2]
    /\ probe.storage[1] # probe.storage[2]

-----------------------------------------------------------------------------
(* ParsePosition and FormatPosition as functions                           *)

\* The longest row part of the coordinate texts tried.
MaxRowLen == 3

RowChars == {"0", "1", "5", "6", "+", " ", "\r", "_", "-"}

\* The texts of at most n characters of RowChars.
RECURSIVE RowTexts(_)
RowTexts(n) ==
    IF n = 0 THEN {<<>>}
    ELSE RowTexts(n - 1)
            \cup {Append(t, ch) : t \in {u \in RowTexts(n - 1) : Len(u) = n - 1},
                                  ch \in RowChars}

ColumnTexts == {<<"A">>, <<"O">>, <<"P">>, <<"a">>, <<>>, <<"A", "B">>}

\* Coordinate texts: a column part, a hyphen or nothing, a row part.
PositionTexts ==
    {col \o sep \o row :
        col \in ColumnTexts, sep \in {<<"-">>, <<>>}, row \in RowTexts(MaxRowLen)}

NoResult == [Row |-> 0, Col |-> 0, err |-> NilErr]

\* Move texts: a coordinate part (H-08 of the documented form, A-+1 and A-5x
\* that ParsePosition accepts as well, P-01, A-16 and H08 that it rejects)
\* followed by nothing, by a hyphen and a piece part, or by more.
CoordinateParts ==
    { <<"H", "-", "0", "8">>,
      <<"A", "-", "+", "1">>, <<"A", "-", "5", "x">>, <<"A", "-", "\r", "5">>,
      <<"A", "-", "5", ReplacementRune>>, <<"A", "-", "5", "U+00E9">>,
      <<"P", "-", "0", "1">>, <<"A", "-", "1", "6">>,
      <<"H", "0", "8">> }

PieceParts ==
    { <<>>, <<"-">>, <<"-", "X">>, <<"-", "O">>, <<"-", "x">>, <<"-", "o">>,
      <<"-", "+">>, <<"-", "U+00E9">>, <<"-", "X", "O">>,
      <<"-", "X", "-", "O">> }

CodecMoveTexts == {c \o q : c \in CoordinateParts, q \in PieceParts}

InitCodec ==
    /\ \/ \E text \in PositionTexts :
              probe = [op |-> "ParsePosition", pos |-> [Row |-> 0, Col |-> 0],
                       text |-> text, done |-> FALSE, res |-> NoResult]
       \/ \E row \in Idx : \E col \in Idx :
              probe = [op |-> "FormatPosition", pos |-> [Row |-> row, Col |-> col],
                       text |-> <<>>, done |-> FALSE, res |-> NoResult]
       \/ \E text \in CodecMoveTexts :
              probe = [op |-> "ValidateAndParseMove", pos |-> [Row |-> 0, Col |-> 0],
                       text |-> text, done |-> FALSE,
                       res |-> [position |-> <<>>, player |-> "", err |-> NilErr]]
       \/ probe = [op |-> "MakeMove", pos |-> [Row |-> 0, Col |-> 0],
                    text |-> <<>>, done |-> FALSE, res |-> NoResult]
    /\ gs = NewGameState
    /\ arg = <<>>
    /\ ret = NilErr
    /\ Untouched

\* One call ParsePosition(text).
CallParsePosition ==
    /\ probe.op = "ParsePosition"
    /\ ~ probe.done
    /\ probe' = [probe EXCEPT !.done = TRUE, !.res = ParsePosition(probe.text)]
    /\ UNCHANGED <<gs, arg, ret, out, bp, disk, png>>

\* One call ParsePosition(FormatPosition(pos)).
CallFormatThenParse ==
    /\ probe.op = "FormatPosition"
    /\ ~ probe.done
    /\ probe' = [probe EXCEPT !.done = TRUE,
                              !.text = FormatPosition(probe.pos),
                              !.res = ParsePosition(FormatPosition(probe.pos))]
    /\ UNCHANGED <<gs, arg, ret, out, bp, disk, png>>

\* One call ValidateAndParseMove(text).
CallValidateAndParseMove ==
    /\ probe.op = "ValidateAndParseMove"
    /\ ~ probe.done
    /\ probe' = [probe EXCEPT !.done = TRUE,
                              !.res = ValidateAndParseMove(probe.text)]
    /\ UNCHANGED <<gs, arg, ret, out, bp, disk, png>>

\* One call gs.MakeMove(moveStr) with one of the move texts above, in a game
\* played from the fresh state.
CallMakeMove(moveStr) ==
    /\ probe.op = "MakeMove"
    /\ Move(moveStr)

NextCodec ==
    \/ CallParsePosition
    \/ CallFormatThenParse
    \/ CallValidateAndParseMove
    \/ \E moveStr \in CodecMoveTexts : CallMakeMove(moveStr)

SpecCodec == InitCodec /\ [][NextCodec]_vars

\* A coordinate text of the documented form: one letter A..O, a hyphen and
\* two decimal digits making 01..15.
Canonical(text) ==
    /\ Len(text) = 4
    /\ \E i \in 1 .. 15 : ColumnLetters[i] = text[1]
    /\ text[2] = "-"
    /\ text[3] \in DigitSet
    /\ text[4] \in DigitSet
    /\ 10 * DigitVal(text[3]) + DigitVal(text[4]) \in 1 .. 15

\* C19: ParsePosition accepts a text exactly when it is one letter A..O, a
\* hyphen and two digits making 01..15, and then returns the column index
\* of the letter and the row index number - 1; every other text is rejected.
C19_ParseAcceptsCanonicalOnly ==
    (probe.op = "ParsePosition" /\ probe.done) =>
        /\ IsNil(probe.res.err) <=> Canonical(probe.text)
        /\ Canonical(probe.text) =>
              /\ probe.res.Col = ColOf(probe.text)
              /\ probe.res.Row = RowOf(probe.text)

\* C20: for every position with row and column in 0..14,
\* ParsePosition(FormatPosition(p)) succeeds and returns p.
C20_FormatThenParse ==
    (probe.op = "FormatPosition" /\ probe.done) =>
        /\ IsNil(probe.res.err)
        /\ probe.res.Row = probe.pos.Row
        /\ probe.res.Col = probe.pos.Col

\* The position of row index 8 and column index 14 has been formatted as
\* "O-09" and parsed back.
C20_Witness ==
    /\ probe.op = "FormatPosition"
    /\ probe.done
    /\ probe.pos = [Row |-> 8, Col |-> 14]
    /\ probe.text = <<"O", "-", "0", "9">>
    /\ IsNil(probe.res.err)

\* C21: FormatPosition of the Position that ParsePosition returns for an
\* accepted text is that text again, and so the Position string of every
\* move record is the documented text (letter, hyphen, two digits) of a cell.
C21_ParseThenFormat ==
    /\ (probe.op = "ParsePosition" /\ probe.done /\ IsNil(probe.res.err)) =>
            FormatPosition([Row |-> probe.res.Row, Col |-> probe.res.Col])
                = probe.text
    /\ probe.op = "MakeMove" =>
            \A k \in 1 .. Len(gs.Moves) : Canonical(gs.Moves[k].Position)

Hyphens(text) == {i \in 1 .. Len(text) : text[i] = "-"}

\* C22: a move text that ValidateAndParseMove accepts has exactly two
\* hyphens, the second one followed by the single character X or O, and
\* before it a coordinate text that ParsePosition accepts; the player
\* returned is BLACK for X and WHITE for O.  Every other text is rejected.
C22_MoveTextForm ==
    (probe.op = "ValidateAndParseMove" /\ probe.done /\ IsNil(probe.res.err)) =>
        LET t == probe.text
            n == Len(t)
        IN  /\ Cardinality(Hyphens(t)) = 2
            /\ n >= 2
            /\ t[n - 1] = "-"
            /\ t[n] \in {"X", "O"}
            /\ IsNil(ParsePosition(SubSeq(t, 1, n - 2)).err)
            /\ probe.res.position = SubSeq(t, 1, n - 2)
            /\ probe.res.player = (IF t[n] = "X" THEN "BLACK" ELSE "WHITE")

\* "H-08-X" has been accepted as a move of BLACK at "H-08".
C22_Witness ==
    /\ probe.op = "ValidateAndParseMove"
    /\ probe.done
    /\ probe.text = <<"H", "-", "0", "8", "-", "X">>
    /\ IsNil(probe.res.err)
    /\ probe.res.player = "BLACK"
    /\ probe.res.position = <<"H", "-", "0", "8">>

\* One command has run in this step.
Command == out'.n = out.n + 1

\* The command of this step has loaded a state.
Loaded == out'.err.fmt \notin LoadFailures

\* The file holds a whole snapshot.
Snapshot(file) == file # <<>> /\ "truncated" \notin DOMAIN file[1]

\* The state a readable file that is missing or holds a snapshot loads as.
StateOf(file) == LoadGameState(file, TRUE).gs

Fresh(g) ==
    /\ \A r \in Idx : \A c \in Idx : g.Board[r][c] = "+"
    /\ g.Moves = <<>>
    /\ g.CurrentTurn = "WHITE"
    /\ g.GameOver = FALSE
    /\ g.Winner = Nil

\* C23: a command run while no snapshot exists works on a fresh state (all
\* 225 cells empty, no moves, WHITE to move, not over, no winner): if it
\* does not accept a move the state it leaves in memory is that state, and
\* if it accepts one, that move is the first record and a White (O) move.
C23_NoSnapshotFreshGame ==
    [][(disk = <<>> /\ Command) =>
          /\ (out'.op # "move" \/ ~ IsNil(ret')) => Fresh(gs')
          /\ (out'.op = "move" /\ IsNil(ret')) =>
                /\ arg'[Len(arg')] = "O"
                /\ Len(gs'.Moves) = 1
                /\ gs'.Moves[1].Player = "WHITE"
                /\ Stones(gs'.Board) = 1]_vars

\* The first command of a game without snapshot was a move command and its
\* White move was accepted.
C23_Witness ==
    /\ out.n = 1
    /\ out.op = "move"
    /\ IsNil(ret)
    /\ Len(gs.Moves) = 1
    /\ gs.Moves[1].Player = "WHITE"
    /\ gs.Moves[1].Piece = "O"

\* C28: when a move command whose move was accepted reports that the image
\* could not be generated, the snapshot already holds the state with the
\* accepted move; when it reports that the state could not be saved, the
\* image has not been touched.
C28_SaveBeforeRender ==
    [][(Command /\ out'.op = "move" /\ Loaded /\ IsNil(ret')) =>
          /\ out'.err.fmt = "failed to generate board image: png" =>
                /\ Snapshot(disk')
                /\ Unmarshal(disk'[1]).Moves = gs'.Moves
                /\ Unmarshal(disk'[1]).Board = gs'.Board
                /\ Len(gs'.Moves) = Len(StateOf(disk).Moves) + 1
          /\ out'.err.fmt
                 = "failed to save game state: failed to write game state file: %w" =>
                png' = png]_vars

\* A move was accepted and saved, and drawing it failed before any image
\* existed.
C28_Witness ==
    /\ out.op = "move"
    /\ IsNil(ret)
    /\ out.err.fmt = "failed to generate board image: png"
    /\ Snapshot(disk)
    /\ LastMove(Unmarshal(disk[1])).Position = SubSeq(arg, 1, 4)
    /\ png = <<>>

Diff(b1, b2) == {x \in Idx \X Idx : b1[x[1]][x[2]] # b2[x[1]][x[2]]}

\* C29: the snapshot file changes only in a move command whose move was
\* accepted, and a snapshot written then differs in exactly one cell of the
\* board from the state loaded; the state a command leaves in memory
\* differs from the one it loaded in at most one cell.
C29_OnlyAcceptedMoveWrites ==
    [][/\ disk' # disk =>
             /\ Command
             /\ out'.op = "move"
             /\ Loaded
             /\ IsNil(ret')
             /\ Snapshot(disk') =>
                    Cardinality(Diff(StateOf(disk).Board,
                                     StateOf(disk').Board)) = 1
       /\ (Command /\ Loaded) =>
             Cardinality(Diff(StateOf(disk).Board, gs'.Board)) <= 1]_vars

\* A history command has run on the snapshot that an accepted first move
\* left.
C29_Witness ==
    /\ out.op = "history"
    /\ out.n = 2
    /\ IsNil(out.err)
    /\ Snapshot(disk)
    /\ Len(Unmarshal(disk[1]).Moves) = 1
    /\ out.moves = 1

\* C30: an analyze command in which the collaborator fails calls it once,
\* returns an error and leaves the loaded state (Analysis and AnalysisHash
\* included) and the snapshot as they were; an analyze command that reports
\* the analyzer as not configured has not called the collaborator and has
\* not changed the snapshot.
C30_AnalysisFailureLeavesState ==
    [][(Command /\ out'.op = "analyze") =>
          /\ (bp' # bp /\ ~ bp'[Len(bp')].response.ok) =>
                /\ Len(bp') = Len(bp) + 1
                /\ ~ IsNil(out'.err)
                /\ gs' = StateOf(disk)
                /\ disk' = disk
          /\ out'.err.fmt
                 \in {"AI analysis not available - AWS credentials not configured",
                      "AI analysis not available - missing AWS credentials"} =>
                /\ bp' = bp
                /\ disk' = disk]_vars

\* The collaborator failed in the only analyze command run so far, on a
\* snapshot with moves.
C30_Witness ==
    /\ out.op = "analyze"
    /\ out.err.fmt = "failed to analyze position: bedrock converse failed: %w"
    /\ Len(bp) = 1
    /\ ~ bp[1].response.ok
    /\ Snapshot(disk)
    /\ gs = Unmarshal(disk[1])

Numbered(moves) == \A k \in 1 .. Len(moves) : moves[k].MoveNum = k

\* C24: in every state the k-th move record has MoveNum k, and a call of
\* MakeMove leaves the list as it was or appends exactly one record to it,
\* the earlier records unchanged.
C24_MoveListAppendOnly ==
    [][/\ Numbered(gs.Moves)
       /\ Numbered(gs'.Moves)
       /\ IF IsNil(ret')
          THEN /\ Len(gs'.Moves) = Len(gs.Moves) + 1
               /\ SubSeq(gs'.Moves, 1, Len(gs.Moves)) = gs.Moves
          ELSE gs'.Moves = gs.Moves]_vars

\* A move has been accepted and recorded last, with its number, after at
\* least one other.
C24_Witness ==
    /\ arg # <<>>
    /\ IsNil(ret)
    /\ Len(gs.Moves) >= 2
    /\ LastMove(gs).MoveNum = Len(gs.Moves)
    /\ LastMove(gs).Position = SubSeq(arg, 1, 4)

\* C25: in every state of a game that is not over, CurrentTurn is WHITE when
\* the number of moves made is even and BLACK when it is odd.
C25_TurnParity ==
    ~ gs.GameOver =>
        gs.CurrentTurn = (IF Len(gs.Moves) % 2 = 0 THEN "WHITE" ELSE "BLACK")

\* White has just moved, the game goes on and it is BLACK's turn after an
\* odd number of moves.
C25_Witness ==
    /\ arg # <<>>
    /\ IsNil(ret)
    /\ arg[6] = "O"
    /\ ~ gs.GameOver
    /\ Len(gs.Moves) % 2 = 1
    /\ gs.CurrentTurn = "BLACK"

\* C26: Winner is never set while GameOver is false; Winner changes only
\* in an accepted move that also takes GameOver from false to true, and
\* not after that.
C26_WinnerOnlyWithGameOver ==
    [][/\ gs.Winner # Nil => gs.GameOver
       /\ gs'.Winner # Nil => gs'.GameOver
       /\ gs'.Winner # gs.Winner =>
             /\ gs.Winner = Nil
             /\ ~ gs.GameOver
             /\ gs'.GameOver
             /\ IsNil(ret')
             /\ Len(gs'.Moves) = Len(gs.Moves) + 1
       /\ gs.GameOver => gs'.Winner = gs.Winner]_vars

\* White's move has just won the game.
C26_Witness ==
    /\ arg # <<>>
    /\ IsNil(ret)
    /\ arg[6] = "O"
    /\ gs.GameOver
    /\ gs.Winner = "WHITE"

\* C27: a Position that ParsePosition returns without error has row and
\* column in 0..14, and MakeMove never reports a position out of bounds.
C27_ParsedPositionOnBoard ==
    /\ (probe.op = "ParsePosition" /\ probe.done /\ IsNil(probe.res.err)) =>
            /\ probe.res.Row \in 0 .. 14
            /\ probe.res.Col \in 0 .. 14
    /\ probe.op = "MakeMove" => ret.fmt # "position %s is out of bounds"

\* "O-15" has been parsed as the last cell of the board.
C27_Witness ==
    /\ probe.op = "ParsePosition"
    /\ probe.done
    /\ probe.text = <<"O", "-", "1", "5">>
    /\ IsNil(probe.res.err)
    /\ probe.res.Row = 14
    /\ probe.res.Col = 14

\* C31: a state that has been saved and then loaded, both without error, is
\* equal to the state that was saved: board, move list, CurrentTurn,
\* GameOver, Winner, board hash, analysis and its tag.
C31_SaveThenLoad ==
    (/\ probe.op = "SaveThenLoad"
     /\ probe.done
     /\ IsNil(probe.err)
     /\ IsNil(probe.loadErr)) => probe.loaded = probe.saved

\* C32: a call of GetGameStatus reports "Game Over - <winner> wins!" exactly
\* when the game is over with a winner, "Game Over - Draw!" exactly when it
\* is over without one, and "<CurrentTurn> to move" exactly when it is not
\* over; on a fresh game that is "WHITE to move".
C32_StatusMatchesState ==
    [][probe'.n = probe.n + 1 =>
          LET st == probe'.status
          IN  /\ st[1] = "Game Over - %s wins!"
                    <=> (gs.GameOver /\ gs.Winner \in {"BLACK", "WHITE"})
              /\ st[1] = "Game Over - %s wins!" => st = <<st[1], gs.Winner>>
              /\ st = <<"Game Over - Draw!">>
                    <=> (gs.GameOver /\ gs.Winner \notin {"BLACK", "WHITE"})
              /\ st[1] = "%s to move" <=> ~ gs.GameOver
              /\ st[1] = "%s to move" => st = <<st[1], gs.CurrentTurn>>
              /\ Fresh(gs) => st = <<"%s to move", "WHITE">>]_vars

\* The status of a full board without winner has been reported as a draw.
C32_Witness ==
    /\ probe.op = "GetGameStatus"
    /\ probe.n > 0
    /\ probe.status = <<"Game Over - Draw!">>
    /\ gs.GameOver
    /\ gs.Winner = Nil
    /\ Full(gs.Board)

\* C33: in every state of a game that is not over, the board holds no five
\* consecutive pieces of one colour on any row, column or diagonal.
C33_NoFiveWhileRunning ==
    ~ gs.GameOver => (~ HasFive(gs.Board, "O") /\ ~ HasFive(gs.Board, "X"))

\* A move has been accepted on the nearly full board and the game goes on.
C33_Witness ==
    /\ arg # <<>>
    /\ IsNil(ret)
    /\ ~ gs.GameOver
    /\ Len(gs.Moves) > 220
    /\ gs.Board[RowOf(arg)][ColOf(arg)] = arg[6]

\* C34: record k of the move list belongs to WHITE with piece O when k is
\* odd and to BLACK with piece X when k is even; the cell it names holds
\* its piece; no two records name the same cell; and the O stones on the
\* board are as many as the X stones or one more.
C34_RecordsAgreeWithBoard ==
    /\ \A k \in 1 .. Len(gs.Moves) :
          /\ gs.Moves[k].Player = (IF k % 2 = 1 THEN "WHITE" ELSE "BLACK")
          /\ gs.Moves[k].Piece = (IF k % 2 = 1 THEN "O" ELSE "X")
          /\ LET cell == CellOf(gs.Moves[k].Position)
             IN  gs.Board[cell[1]][cell[2]] = gs.Moves[k].Piece
    /\ Cardinality({CellOf(gs.Moves[k].Position) : k \in 1 .. Len(gs.Moves)})
          = Len(gs.Moves)
    /\ Cardinality({x \in Idx \X Idx : gs.Board[x[1]][x[2]] = "O"})
          - Cardinality({x \in Idx \X Idx : gs.Board[x[1]][x[2]] = "X"})
              \in {0, 1}

\* Black's move has been accepted and recorded under an even number: as
\* many O as X stones.
C34_Witness ==
    /\ arg # <<>>
    /\ IsNil(ret)
    /\ arg[6] = "X"
    /\ Len(gs.Moves) % 2 = 0
    /\ LastMove(gs).Player = "BLACK"
    /\ LastMove(gs).Piece = "X"
    /\ Stones(gs.Board) = Len(gs.Moves)

\* C35: in a state that is over with a winner, the winner is the player of
\* the last move record and CurrentTurn is still the winner; in a drawn
\* state CurrentTurn is the player of the last move record.
C35_TurnStaysWithLastMover ==
    gs.GameOver =>
        /\ Len(gs.Moves) > 0
        /\ gs.Winner # Nil => gs.Winner = LastMove(gs).Player
        /\ gs.CurrentTurn = LastMove(gs).Player

\* White's last move won the game and it is still WHITE's turn.
C35_Witness ==
    /\ arg # <<>>
    /\ IsNil(ret)
    /\ gs.GameOver
    /\ gs.Winner = "WHITE"
    /\ LastMove(gs).Player = "WHITE"
    /\ gs.CurrentTurn = "WHITE"

-----------------------------------------------------------------------------
(* Two games played from the same position, then hashed                    *)

\* White holds H-08, J-10 and L-12 on a diagonal, with I-09 and K-11 between
\* them empty; Black holds E-09, F-09 and H-09.
GapOpening ==
    Interleave(<<<<7, 7>>, <<9, 9>>, <<11, 11>>>>,
               <<<<8, 4>>, <<8, 5>>, <<8, 7>>>>)

PairOpenings == {GapOpening, DrawOpening}

PairTexts ==
    {MoveText(c[1], c[2], q) :
        c \in {<<8, 6>>, <<8, 8>>, <<9, 7>>, <<10, 10>>}, q \in {"O", "X"}}

InitPairs ==
    /\ gs \in {Replay(o) : o \in PairOpenings}
    /\ probe = [op |-> "TwoGames", other |-> gs, done |-> FALSE,
                game |-> <<>>, storage |-> <<>>]
    /\ arg = <<>>
    /\ ret = NilErr
    /\ Untouched

\* One call gs.MakeMove(moveStr) in the first game; the error returned is
\* not kept.
MoveFirst(moveStr) ==
    \E r \in {MakeMove(gs, moveStr)} :
        /\ ~ probe.done
        /\ gs' = r.gs
        /\ UNCHANGED <<arg, ret, probe, out, bp, disk, png>>

\* One call MakeMove(moveStr) in the second game; the error returned is not
\* kept.
MoveSecond(moveStr) ==
    \E r \in {MakeMove(probe.other, moveStr)} :
        /\ ~ probe.done
        /\ probe' = [probe EXCEPT !.other = r.gs]
        /\ UNCHANGED <<gs, arg, ret, out, bp, disk, png>>

\* Both hash functions applied to the states of both games.
HashBoth ==
    /\ ~ probe.done
    /\ probe' = [probe EXCEPT
                    !.done = TRUE,
                    !.game = <<GenerateBoardHash(gs), GenerateBoardHash(probe.other)>>,
                    !.storage = <<storageGenerateBoardHash(gs),
                                  storageGenerateBoardHash(probe.other)>>]
    /\ UNCHANGED <<gs, arg, ret, out, bp, disk, png>>

NextPairs ==
    \/ \E moveStr \in PairTexts : MoveFirst(moveStr)
    \/ \E moveStr \in PairTexts : MoveSecond(moveStr)
    \/ HashBoth

SpecPairs == InitPairs /\ [][NextPairs]_vars

\* C36: two states reached by play that have the same board have the same
\* number of moves, CurrentTurn, GameOver and Winner; so the board-only hash
\* gives them the same digest exactly when the storage hash does.
C36_BoardDeterminesStatus ==
    /\ (probe.op = "TwoGames" /\ gs.Board = probe.other.Board) =>
          /\ Len(gs.Moves) = Len(probe.other.Moves)
          /\ gs.CurrentTurn = probe.other.CurrentTurn
          /\ gs.GameOver = probe.other.GameOver
          /\ gs.Winner = probe.other.Winner
    /\ (probe.op = "TwoGames" /\ probe.done) =>
          (probe.game[1] = probe.game[2] <=> probe.storage[1] = probe.storage[2])

\* Two games have reached the same board, won by White, by different move
\* orders and both hashes give them the same digest.
C36_Witness ==
    /\ probe.op = "TwoGames"
    /\ probe.done
    /\ gs.Board = probe.other.Board
    /\ gs.Moves # probe.other.Moves
    /\ gs.GameOver
    /\ gs.Winner = "WHITE"
    /\ probe.game[1] = probe.game[2]
    /\ probe.storage[1] = probe.storage[2]

-----------------------------------------------------------------------------
(* The display area computed for boards with stones anywhere              *)

\* The game after White has played on cell a and, when b is another cell,
\* Black on cell b.
AfterStones(a, b) ==
    Replay(IF b = a
           THEN <<MoveText(a[1], a[2], "O")>>
           ELSE <<MoveText(a[1], a[2], "O"), MoveText(b[1], b[2], "X")>>)

\* The boards the area is computed for: the empty one and those with one
\* or two stones anywhere, which give every possible bounding box.
InitArea ==
    /\ \/ gs = NewGameState
       \/ \E a \in Idx \X Idx :
              \E b \in {x \in Idx \X Idx :
                         x[1] > a[1] \/ (x[1] = a[1] /\ x[2] >= a[2])} :
                  gs = AfterStones(a, b)
    /\ probe = [op |-> "calculateOptimalDisplayArea", done |-> FALSE,
                area |-> <<>>]
    /\ arg = <<>>
    /\ ret = NilErr
    /\ Untouched

\* One call calculateOptimalDisplayArea(gs), as GenerateBoardImage makes it.
CallCalculateOptimalDisplayArea ==
    /\ ~ probe.done
    /\ probe' = [probe EXCEPT !.done = TRUE,
                              !.area = calculateOptimalDisplayArea(gs)]
    /\ UNCHANGED <<gs, arg, ret, out, bp, disk, png>>

NextArea == CallCalculateOptimalDisplayArea

SpecArea == InitArea /\ [][NextArea]_vars

\* C37: for every board, empty or not, calculateOptimalDisplayArea returns
\* a square area (Width = Height) that lies inside the 15x15 board
\* (0 <= MinRow <= MaxRow <= 14, the same for the columns) and contains
\* every stone; a square is always found, so the origin is never left at -1.
C37_DisplayAreaSquareInsideBoard ==
    (probe.op = "calculateOptimalDisplayArea" /\ probe.done) =>
        LET a == probe.area
        IN  /\ a.Width = a.Height
            /\ 0 <= a.MinRow /\ a.MinRow <= a.MaxRow /\ a.MaxRow <= BoardSize - 1
            /\ 0 <= a.MinCol /\ a.MinCol <= a.MaxCol /\ a.MaxCol <= BoardSize - 1
            /\ \A r \in Idx : \A c \in Idx :
                  gs.Board[r][c] # "+" =>
                      /\ a.MinRow <= r /\ r <= a.MaxRow
                      /\ a.MinCol <= c /\ c <= a.MaxCol
            /\ a.MinRow # -1
            /\ a.MinCol # -1

\* The area has been computed for a board whose two stones are 13 rows
\* apart, so that the padded square had to be cut down to the whole board.
C37_Witness ==
    /\ probe.op = "calculateOptimalDisplayArea"
    /\ probe.done
    /\ gs.Board[0][3] = "O"
    /\ gs.Board[13][5] = "X"
    /\ probe.area.Width = BoardSize
    /\ probe.area.MinRow = 0
    /\ probe.area.MinCol = 0

====
